---- MODULE Spec2Model ----
(***************************************************************************)
(* Model of the sql-agent chat server: the JSON-backed SessionStore        *)
(* (app/sessions.py), the tool dispatcher (app/agent/tools.py) and the     *)
(* streaming chat turn (app/server.py, chat / event_stream / _producer).   *)
(***************************************************************************)
EXTENDS Integers, Sequences, FiniteSets, TLC

\* ---------------------------------------------------------------- bounds
MaxThreads == 2     \* requests the server handles at the same time
MaxTurns  == 2      \* chat requests issued over one run
MaxRounds == 2      \* provider rounds over one run
MaxKills  == 1      \* abrupt terminations of the process over one run
MaxOps    == 3      \* direct SessionStore calls issued over one run
MaxWindow == 2      \* entries kept of a history in the liveness specification
MaxFrags  == 3      \* chunks of the stream whose aggregation is checked
MaxNow    == 2      \* milliseconds the wall clock advances over one run
MaxDirs   == 2      \* directories os.walk visits in a workspace
MaxFiles  == 2      \* files of one directory
MaxHits   == 2      \* largest max_hits a search is called with

Turns == 1..MaxThreads
CHAT  == "c1"       \* the chat_id every request of the model carries

NoOwner   == 0
NoOp      == [kind |-> "none"]
NoSession == [absent |-> TRUE]
NoFile    == [absent |-> TRUE]
None      == "None"

\* An unbounded turn has an unbounded history.  The specification of the
\* liveness claims (live = TRUE) therefore keeps every history (the message
\* lists, the lines sent to the client) as a window of its last MaxWindow
\* entries and lets the counters of the run stop at their bounds; the turn's
\* control flow reads the histories through has_schema only, which decides
\* what a tool message says, not what the turn does next.  In every other
\* specification live = FALSE and the histories are complete.
VARIABLE live

VARIABLES
    rs,       \* Agent.respond: position, history, tool calls of the response
    dbs,      \* Database: owner of _lock, position of every caller
    sf        \* search_files: the workspace walked, position, hits

auxVars == <<rs, dbs, sf>>

Keep(q) ==
    IF live /\ Len(q) > MaxWindow
    THEN SubSeq(q, Len(q) - MaxWindow + 1, Len(q)) ELSE q

Count(n, max) == IF live /\ n > max THEN max ELSE n

\* ------------------------------------------------------- messages (dicts)
Msg(role, tcs, tcid, name, content, thinking) ==
    [role |-> role, tool_calls |-> tcs, tool_call_id |-> tcid,
     name |-> name, content |-> content, thinking |-> thinking]

\* content is [text |-> t] for a str and [json |-> r] for json.dumps(r);
\* thinking is the text, <<>> standing for None
Text(t) == [text |-> t]
Dumps(r) == [json |-> r]

UserMsg(u) == Msg("user", <<>>, None, None, Text(<<u>>), <<>>)

\* Agent.build_messages (core.py): the system prompt of server.py line 47,
\* then the messages
SystemMsg == Msg("system", <<>>, None, None, Text(<<"s">>), <<>>)

build_messages(messages) == <<SystemMsg>> \o messages

\* ------------------------------------------------- SessionStore (sessions.py)
\* The store is the triple: in-memory map, live file, temporary file.
\* A file is NoFile or [snap, written, size]: the map that json.dumps
\* serialised, how many units of the text have reached the disk, and how many
\* units the complete text has.

RECURSIVE SumLen(_, _)
SumLen(sessions, ids) ==
    IF ids = {} THEN 0
    ELSE LET c == CHOOSE x \in ids : TRUE
         IN  (IF sessions[c] = NoSession THEN 0
              ELSE 1 + Len(sessions[c].messages)) + SumLen(sessions, ids \ {c})

\* json.dumps(self._data): the text is one unit for the outer object plus one
\* unit per session and one per message.
DumpSize(d) == 1 + SumLen(d, DOMAIN d)

EmptyData == [c \in {CHAT} |-> NoSession]

\* json.loads of a file: a text cut short does not parse.
Parses(f) == f # NoFile /\ f.written = f.size

\* SessionStore._load
Load(f) == IF Parses(f) THEN f.snap ELSE EmptyData

NewSession(title, ts, model) ==
    [title |-> title, created_at |-> ts, updated_at |-> ts,
     messages |-> <<>>, model |-> model]

\* SessionStore.get_messages
get_messages(d, c) == IF d[c] = NoSession THEN <<>> ELSE d[c].messages

\* append that puts the message at the head of the list
MutAppendFront(d, c, m, ts) ==
    LET s == IF d[c] = NoSession THEN NewSession("", ts, None) ELSE d[c]
    IN  [d EXCEPT ![c] = [s EXCEPT !.messages = <<m>> \o @, !.updated_at = ts]]

\* the in-memory part of SessionStore.append (setdefault, append, updated_at)
MutAppend(d, c, m, ts) ==
    LET s == IF d[c] = NoSession THEN NewSession("", ts, None) ELSE d[c]
    IN  [d EXCEPT ![c] = [s EXCEPT !.messages = Keep(Append(@, m)), !.updated_at = ts]]

\* the in-memory part of SessionStore.create
MutCreate(d, c, title, ts, model) ==
    IF d[c] = NoSession THEN [d EXCEPT ![c] = NewSession(title, ts, model)] ELSE d

\* the in-memory part of SessionStore.rename
MutRename(d, c, title, ts) ==
    IF d[c] = NoSession THEN d
    ELSE [d EXCEPT ![c] = [@ EXCEPT !.title = title, !.updated_at = ts]]

\* the in-memory part of SessionStore.update_model
MutUpdateModel(d, c, model, ts) ==
    IF d[c] = NoSession THEN d
    ELSE [d EXCEPT ![c] = [@ EXCEPT !.model = model, !.updated_at = ts]]

\* the in-memory part of SessionStore.delete
MutDelete(d, c) == [d EXCEPT ![c] = NoSession]

\* A pending store call: [kind, chat, arg, ts]; ts is the updated_at argument
\* the caller evaluated before the call.
StoreOp(kind, arg, ts) == [kind |-> kind, chat |-> CHAT, arg |-> arg, ts |-> ts]

Mutate(d, o) ==
    CASE o.kind = "append"       -> MutAppend(d, o.chat, o.arg, o.ts)
      [] o.kind = "create"       -> MutCreate(d, o.chat, o.arg, o.ts, "m1")
      [] o.kind = "rename"       -> MutRename(d, o.chat, o.arg, o.ts)
      [] o.kind = "update_model" -> MutUpdateModel(d, o.chat, o.arg, o.ts)
      [] o.kind = "delete"       -> MutDelete(d, o.chat)

\* Does the call reach self._save()?  create of an existing id, and rename,
\* update_model and delete of a missing one, return without saving.
Saves(d, o) ==
    CASE o.kind = "append" -> TRUE
      [] o.kind = "create" -> d[o.chat] = NoSession
      [] OTHER             -> d[o.chat] # NoSession

\* the value a call returns when it does not raise; saved says whether it
\* went through _save
RetVal(o, saved) ==
    CASE o.kind \in {"append", "create"} -> "None"
      [] OTHER -> IF saved THEN "True" ELSE "False"

\* ------------------------------------------------ tool dispatcher (tools.py)
\* names registered by make_tools and make_sql_tools
Registry == {"list_files", "read_file", "write_file", "search_files",
             "sql_schema", "sql_query"}

\* json.loads(arguments_json or "{}"): does the text parse?  Texts are
\* sequences of characters; the model's JSON texts are objects "{...}".
ValidJson(a) ==
    \/ a = <<>>
    \/ /\ Len(a) >= 2
       /\ a[1] = "{"
       /\ a[Len(a)] = "}"
       /\ \A i \in 2..(Len(a) - 1) : a[i] \notin {"{", "}"}

Result(error, value) == [error |-> error, value |-> value]

Raised == Result("raised", "")

\* dispatch_tool with the argument text parsed before the tool is looked up
dispatch_tool_parse_first(name, arguments, outcome) ==
    IF ~ValidJson(arguments) THEN Raised
    ELSE IF name \in Registry
    THEN IF outcome = "raise" THEN Raised ELSE Result("", name)
    ELSE Result("Unknown tool", name)

\* dispatch_tool; `outcome` is what t.func does: "ok" or "raise".
\* The value is the returned dict, or Raised when an exception leaves
\* dispatch_tool.
dispatch_tool(name, arguments, outcome) ==
    IF name \in Registry
    THEN IF ~ValidJson(arguments) THEN Raised
         ELSE IF outcome = "raise" THEN Raised
         ELSE Result("", name)
    ELSE Result("Unknown tool", name)

\* does dispatch_tool reach t.func(args)?
Invokes(name, arguments) == name \in Registry /\ ValidJson(arguments)

\* ------------------------------------- streaming delta aggregator (_producer)
\* texts are sequences of characters, <<>> the empty string
Ev(type, id, name, output, text) ==
    [type |-> type, id |-> id, name |-> name, output |-> output, text |-> text]

NoResult      == Result("", "")
OpenEv        == Ev("open", None, None, NoResult, <<>>)
ChunkEv(p)    == Ev("chunk", None, None, NoResult, p)
ThinkingEv(p) == Ev("thinking", None, None, NoResult, p)
DoneEv        == Ev("done", None, None, NoResult, <<>>)
ErrorEv       == Ev("error", None, None, NoResult, <<>>)
ToolResultEv(id, name, out) == Ev("tool_result", id, name, out, <<>>)
STREAM_DONE   == Ev("__STREAM_DONE__", None, None, NoResult, <<>>)

\* one provider chunk: choices[0].finish_reason and choices[0].delta
Delta(content, reasoning, tcs, fr) ==
    [content |-> content, reasoning |-> reasoning, tool_calls |-> tcs,
     finish_reason |-> fr]

\* one entry of delta.tool_calls
TcDelta(index, id, name, arguments) ==
    [index |-> index, id |-> id, name |-> name, arguments |-> arguments]

NewBox == [assistant_text |-> <<>>, thinking_text |-> <<>>,
           tool_calls_state |-> <<>>, finish_reason |-> None,
           fallback |-> FALSE, error |-> None]

\* tool_calls_state is a dict keyed by position index; the model keeps it as
\* a function with a finite domain of indexes.
TcsPut(tcs, idx, st) ==
    [i \in (DOMAIN tcs) \cup {idx} |-> IF i = idx THEN st ELSE tcs[i]]

\* a tool-call delta that carries no index
NoIndex == -1

\* lines 519-521: the position index of the i-th entry (from 0) of
\* delta.tool_calls
IndexOf(tc, i) == IF tc.index = NoIndex THEN i ELSE tc.index

\* a fragment of argument text that replaces the buffer
ApplyTcOverwrite(tcs, tc, i) ==
    LET idx == IndexOf(tc, i)
        st0 == IF idx \in DOMAIN tcs THEN tcs[idx]
               ELSE [id |-> tc.id, name |-> None, arguments |-> <<>>]
        st1 == IF tc.name # None THEN [st0 EXCEPT !.name = tc.name] ELSE st0
        st2 == IF tc.arguments # <<>>
               THEN [st1 EXCEPT !.arguments = tc.arguments] ELSE st1
    IN  TcsPut(tcs, idx, st2)

\* lines 518-543 for the i-th tool-call delta of a chunk
ApplyTc(tcs, tc, i) ==
    LET idx == IndexOf(tc, i)
        st0 == IF idx \in DOMAIN tcs THEN tcs[idx]
               ELSE [id |-> tc.id, name |-> None, arguments |-> <<>>]
        st1 == IF tc.name # None THEN [st0 EXCEPT !.name = tc.name] ELSE st0
        st2 == IF tc.arguments # <<>>
               THEN [st1 EXCEPT !.arguments = @ \o tc.arguments] ELSE st1
    IN  TcsPut(tcs, idx, st2)

RECURSIVE ApplyTcs(_, _, _)
\* line 518: for i, tc in enumerate(tcd), from entry i on
ApplyTcs(tcs, deltas, i) ==
    IF i >= Len(deltas) THEN tcs
    ELSE ApplyTcs(ApplyTc(tcs, deltas[i + 1], i), deltas, i + 1)

\* a content piece put in front of the answer buffer
ApplyDeltaPrepend(b, d) ==
    [b EXCEPT
       !.finish_reason    = IF d.finish_reason # None THEN d.finish_reason ELSE @,
       !.assistant_text   = IF d.content # <<>> THEN d.content \o @ ELSE @,
       !.thinking_text    = IF d.reasoning # <<>> THEN @ \o d.reasoning ELSE @,
       !.tool_calls_state = ApplyTcs(@, d.tool_calls, 0)]

\* the body of `for chunk in stream` for one chunk
ApplyDelta(b, d) ==
    [b EXCEPT
       !.finish_reason    = IF d.finish_reason # None THEN d.finish_reason ELSE @,
       !.assistant_text   = IF d.content # <<>> THEN @ \o d.content ELSE @,
       !.thinking_text    = IF d.reasoning # <<>> THEN @ \o d.reasoning ELSE @,
       !.tool_calls_state = ApplyTcs(@, d.tool_calls, 0)]

\* reasoning relayed like content
DeltaEventsAllChunks(d) ==
    (IF d.content # <<>> THEN <<ChunkEv(d.content)>> ELSE <<>>) \o
    (IF d.reasoning # <<>> THEN <<ChunkEv(d.reasoning)>> ELSE <<>>)

\* what that chunk puts on out_q
DeltaEvents(d) ==
    (IF d.content # <<>> THEN <<ChunkEv(d.content)>> ELSE <<>>) \o
    (IF d.reasoning # <<>> THEN <<ThinkingEv(d.reasoning)>> ELSE <<>>)

\* is_stream_unsupported_error
is_stream_unsupported_error(e) == e.pattern \/ e.status = 400

\* the non-streaming response applied to state_box (lines 553-577)
TcsOfList(l) ==
    [i \in 0..(Len(l) - 1) |->
        [id |-> l[i + 1].id, name |-> l[i + 1].name, arguments |-> l[i + 1].arguments]]

ApplyResponse(b, r) ==
    [b EXCEPT !.assistant_text = r.content, !.thinking_text = r.thinking,
              !.tool_calls_state = TcsOfList(r.tool_calls),
              !.finish_reason = r.finish_reason, !.fallback = TRUE]

\* ---------------------------------------------- the turn (chat.event_stream)
ToolReasons == {"tool_calls", "tool", "function_call"}

\* a decision on the fragments alone
DispatchesToolsAnyReason(b) ==
    DOMAIN b.tool_calls_state # {}

\* line 608
DispatchesTools(b) ==
    DOMAIN b.tool_calls_state # {} /\ b.finish_reason \in ToolReasons

RECURSIVE SortedIdx(_)
SortedIdx(S) ==
    IF S = {} THEN <<>>
    ELSE LET m == CHOOSE x \in S : \A y \in S : x <= y
         IN  <<m>> \o SortedIdx(S \ {m})

\* lines 610-619
ToolCallsList(tcs) ==
    LET order == SortedIdx(DOMAIN tcs)
    IN  [k \in 1..Len(order) |->
            LET st == tcs[order[k]]
            IN  [id |-> IF st.id # None THEN st.id
                        ELSE "call_" \o ToString(order[k]),
                 name |-> IF st.name # None THEN st.name ELSE "",
                 arguments |-> st.arguments]]

\* lines 621-629
ToolCallMsg(b) ==
    Msg("assistant", ToolCallsList(b.tool_calls_state), None, None,
        Text(b.assistant_text), b.thinking_text)

\* lines 685-691
FinalMsg(b) ==
    Msg("assistant", <<>>, None, None, Text(b.assistant_text), b.thinking_text)

\* line 643
has_schema(h) ==
    \E i \in 1..Len(h) : h[i].role = "tool" /\ h[i].name = "sql_schema"

SchemaRequired == Result("schema_required", "sql_query")
ToolException  == Result("tool_exception", "")

\* the result of one tool call without the guard of lines 642-646
ToolResultNoGuard(h, tc, outcome) ==
    LET r == dispatch_tool(tc.name, tc.arguments, outcome)
    IN  IF r = Raised THEN ToolException ELSE r

\* the result of one tool call without the except of lines 652-655
ToolResultPropagate(h, tc, outcome) ==
    IF tc.name = "sql_query" /\ ~has_schema(h) THEN SchemaRequired
    ELSE dispatch_tool(tc.name, tc.arguments, outcome)

\* lines 637-656: the result of one tool call
ToolResult(h, tc, outcome) ==
    IF tc.name = "sql_query" /\ ~has_schema(h) THEN SchemaRequired
    ELSE LET r == dispatch_tool(tc.name, tc.arguments, outcome)
         IN  IF r = Raised THEN ToolException ELSE r

\* is the capability invoked for this call?
ToolRuns(h, tc) ==
    ~(tc.name = "sql_query" /\ ~has_schema(h)) /\ Invokes(tc.name, tc.arguments)

\* does the call reach json.loads of its argument text?
ToolLoads(h, tc) ==
    ~(tc.name = "sql_query" /\ ~has_schema(h)) /\ tc.name \in Registry

\* lines 658-665
ToolMsg(tc, result) ==
    Msg("tool", <<>>, tc.id, tc.name, Dumps(result), <<>>)

\* ------------------------------------------------------ provider behaviour
ARGS == <<"{", "}">>

ContentDelta(p) == Delta(p, <<>>, <<>>, None)
FinishDelta(fr) == Delta(<<>>, <<>>, <<>>, fr)
CallsDelta(tcs) == Delta(<<>>, <<>>, tcs, None)

FinalScripts == { <<ContentDelta(<<"a">>), FinishDelta("stop")>> }

ToolScripts ==
    { <<CallsDelta(<<TcDelta(0, "p0", "sql_schema", ARGS),
                     TcDelta(1, None, "sql_query", ARGS)>>), FinishDelta("tool_calls")>>,
      <<CallsDelta(<<TcDelta(0, None, "sql_query", ARGS),
                     TcDelta(1, None, "sql_schema", ARGS)>>), FinishDelta("tool_calls")>> }

\* the streams the provider may answer a round with when `left` rounds are
\* left of the run, this one included
Scripts(left) == IF left <= 1 THEN FinalScripts ELSE FinalScripts \cup ToolScripts

Response(content, thinking, tcs, fr) ==
    [content |-> content, thinking |-> thinking, tool_calls |-> tcs,
     finish_reason |-> fr]

\* the non-streaming responses the provider may answer a round with when
\* `left` rounds are left of the run, this one included
Responses(left) ==
    { Response(<<"a">>, <<>>, <<>>, "stop") } \cup
    (IF left <= 1 THEN {}
     ELSE { Response(<<>>, <<>>,
                     <<[id |-> "p0", name |-> "sql_schema", arguments |-> ARGS]>>,
                     "tool_calls") })

\* The chunks a stream is made of where the aggregation itself is checked:
\* content pieces, a piece with reasoning, and tool-call fragments that cut
\* the argument text anywhere, for two position indexes, with and without an
\* index, for registered names and for a name nobody registered.
AggDeltas ==
    { ContentDelta(<<"H">>),
      Delta(<<"w">>, <<"r">>, <<>>, None),
      CallsDelta(<<TcDelta(0, "p0", "sql_schema", <<"{">>)>>),
      CallsDelta(<<TcDelta(0, None, None, <<"}">>)>>),
      CallsDelta(<<TcDelta(NoIndex, None, None, <<"}">>),
                   TcDelta(NoIndex, "p1", "nope", <<"{">>)>>),
      CallsDelta(<<TcDelta(1, None, "read_file", <<"x", "}">>)>>) }

SeqsUpTo(S, n) == UNION { [1..k -> S] : k \in 0..n }

\* every stream of at most MaxFrags of those chunks, closed by the chunk that
\* carries the finish reason; and the short streams closed with another
\* reason or with none
AggScripts ==
    { sq \o <<FinishDelta(fr)>> :
        sq \in SeqsUpTo(AggDeltas, MaxFrags), fr \in {"stop", "tool_calls"} } \cup
    { sq \o <<FinishDelta(fr)>> :
        sq \in SeqsUpTo(AggDeltas, 1), fr \in {"tool", "function_call", "length"} } \cup
    (SeqsUpTo(AggDeltas, 1) \ {<<>>})

\* the responses of the non-streaming request there
AggResponses ==
    { Response(<<"H", "w">>, <<"r">>, <<>>, "stop"),
      Response(<<"H">>, <<>>,
               <<[id |-> "p0", name |-> "sql_schema", arguments |-> ARGS]>>,
               "tool_calls") }

\* provider errors: [status, pattern]; pattern says the message carries one of
\* the recognised signatures
Errors == { [status |-> 400, pattern |-> FALSE],
            [status |-> 500, pattern |-> TRUE],
            [status |-> 500, pattern |-> FALSE] }

\* a provider error that refuses streaming by its status, and one that does not
StatusErrors == { e \in Errors : ~e.pattern }

\* line 573
step == 300

RECURSIVE Slices(_, _)
\* lines 575-576: content[i:i+step] for i in range(0, len(content), step)
Slices(content, n) ==
    IF content = <<>> THEN <<>>
    ELSE IF Len(content) <= n THEN <<ChunkEv(content)>>
    ELSE <<ChunkEv(SubSeq(content, 1, n))>> \o
         Slices(SubSeq(content, n + 1, Len(content)), n)

VARIABLES
    data,     \* SessionStore._data["sessions"]
    file,     \* the live session file
    tmp,      \* the temporary file next to it
    lock,     \* owner of SessionStore._lock, or NoOwner
    sv,       \* position of the lock owner inside _save
    now,      \* wall clock, ms
    kills,    \* abrupt terminations so far
    nturns,   \* chat requests so far
    nops,     \* direct store calls so far
    op,       \* op[t]: the store call thread t is in, or NoOp
    ret,      \* outcome of the last direct store call that returned
    applied,  \* messages in the order append applied them since the last delete or load
    pc,       \* pc[t]: position of request t
    hist,     \* hist[t]: the local `history` list of turn t
    box,      \* box[t]: state_box of the current round
    outq,     \* outq[t]: out_q of the current round
    stream,   \* stream[t]: chunks the provider has still to deliver
    prod,     \* prod[t]: position of the _producer thread
    tcl,      \* tcl[t]: tool_calls_list of the current round
    ti,       \* ti[t]: position in tool_calls_list of the current tool call
    res,      \* res[t]: result of the current tool call
    events,   \* events[t]: lines yielded to the client so far
    conn,     \* conn[t]: the client still reads the response
    round,    \* provider rounds started so far
    xt,       \* xt[t]: tool calls processed in the current round
    nreq,     \* nreq[t]: provider requests issued in turn t
    perr,     \* perr[t]: a provider request of turn t failed without recovery
    araise,   \* araise[t]: a store.append of turn t's event stream raised
    got,      \* got[t]: what the provider has delivered in the current round
    body      \* body[t]: the JSON body of request t

storeVars == <<data, file, tmp, lock, sv>>
callVars  == <<op, ret, applied, nops>>
turnVars  == <<hist, box, outq, stream, prod, tcl, ti, res, events, conn, round,
               xt, nreq, perr, araise, got>>
mainVars  == <<live, data, file, tmp, lock, sv, now, kills, nturns, nops, op, ret, applied, pc,
               hist, box, outq, stream, prod, tcl, ti, res, events, conn, round,
               xt, nreq, perr, araise, got, body>>
vars      == <<rs, dbs, sf, live, data, file, tmp, lock, sv, now, kills, nturns, nops, op, ret, applied, pc,
               hist, box, outq, stream, prod, tcl, ti, res, events, conn, round,
               xt, nreq, perr, araise, got, body>>

\* got[t]: the number of lines the client had received when the round began,
\* the chunks _producer has taken from the stream, in arrival order, the
\* response of the non-streaming request, the requests sent to the provider
\* and the exception the streaming request raised
NoResponse == [absent |-> TRUE]

NoError == [absent |-> TRUE]

\* ns_kwargs as a request carries it: the messages, with stream=True or not;
\* model, tools, tool_choice and temperature are the same for every request
Request(streaming, messages) ==
    [stream |-> streaming, messages |-> build_messages(messages)]

\* a second attempt after any error
FallsBackOnAny(e) == TRUE

\* line 551: the except branch issues the non-streaming request
FallsBack(e) == is_stream_unsupported_error(e)

NewRound(from) ==
    [from |-> from, deltas |-> <<>>, resp |-> NoResponse, sent |-> <<>>, err |-> NoError]

\* body[t]: whether body.get("chat_id") and body.get("message") are there and
\* not empty; NoBody before the first request of the thread
NoBody == [absent |-> TRUE]

Body(has_chat_id, has_message) == [chat_id |-> has_chat_id, message |-> has_message]

\* validation that looks at chat_id only
ValidateChatIdOnly(b) == IF ~b.chat_id THEN 400 ELSE 200

\* lines 331-334: the status of the response, 400 for HTTPException(400)
Validate(b) == IF ~b.chat_id \/ ~b.message THEN 400 ELSE 200

\* rs: Agent.respond (core.py) has not been called
NoRespond ==
    [pc |-> "idle", history |-> <<>>, calls |-> <<>>, i |-> 0, xt |-> <<>>, n |-> 0]

\* dbs: Database.__init__ (db.py lines 41-47): the lock is free and no
\* caller is inside an operation
NewDatabase ==
    [lock |-> NoOwner,
     pc   |-> [c \in Turns |-> "out"],
     kind |-> [c \in Turns |-> "none"],
     left |-> [c \in Turns |-> 0],
     out  |-> [c \in Turns |-> "none"],
     n    |-> 0]

\* sf: search_files has not been called
NoSearch ==
    [pc |-> "idle", layout |-> <<>>, max_hits |-> 0, dir |-> 0, file |-> 0, hits |-> <<>>]

Start ==
    /\ data = EmptyData
    /\ file = NoFile
    /\ tmp = NoFile
    /\ lock = NoOwner
    /\ sv = "idle"
    /\ now = 0
    /\ kills = 0
    /\ nturns = 0
    /\ nops = 0
    /\ op = [t \in Turns |-> NoOp]
    /\ ret = "none"
    /\ applied = <<>>
    /\ pc = [t \in Turns |-> "idle"]
    /\ hist = [t \in Turns |-> <<>>]
    /\ box = [t \in Turns |-> NewBox]
    /\ outq = [t \in Turns |-> <<>>]
    /\ stream = [t \in Turns |-> <<>>]
    /\ prod = [t \in Turns |-> "off"]
    /\ tcl = [t \in Turns |-> <<>>]
    /\ ti = [t \in Turns |-> 0]
    /\ res = [t \in Turns |-> NoResult]
    /\ events = [t \in Turns |-> <<>>]
    /\ conn = [t \in Turns |-> TRUE]
    /\ round = 0
    /\ xt = [t \in Turns |-> <<>>]
    /\ nreq = [t \in Turns |-> 0]
    /\ perr = [t \in Turns |-> FALSE]
    /\ araise = [t \in Turns |-> FALSE]
    /\ got = [t \in Turns |-> NewRound(0)]
    /\ body = [t \in Turns |-> NoBody]
    /\ rs = NoRespond
    /\ dbs = NewDatabase

Init == live = FALSE /\ Start /\ sf = NoSearch

\* the same start, the histories kept as windows
InitLive == live = TRUE /\ Start /\ sf = NoSearch

\* --------------------------------------------------- SessionStore calls
\* the position of tool_calls_list the loop of line 636 takes after k calls
NextCallReversed(l, k) == Len(l) - k

NextCall(l, k) == k + 1

CallPcs == {"append_user", "append_asst", "append_tool", "append_final", "client"}

Running(t) == pc[t] \notin {"idle", "ended", "rejected"}

\* The generator is suspended at a yield, or waits in the relay for out_q.
Suspended(t) ==
    \/ pc[t] \in {"round", "relay"}
    \/ pc[t] = "run_tool" /\ Len(xt[t]) > 0

\* chat and event_stream are coroutines of one event loop: the code of a turn
\* between two awaits or yields runs with no other turn in between.  Turn t
\* may take a step when every other turn is suspended, has not started its
\* generator yet, or is over; a direct store call (pc = "client") runs on a
\* thread of its own.
OnLoop(t) ==
    pc[t] # "client" =>
        \A u \in Turns \ {t} :
            ~Running(u) \/ pc[u] \in {"client", "open"} \/ Suspended(u)

\* where a store call at position p returns to, an exception swallowed
AfterCallSwallow(p, outcome) ==
    CASE p = "client"       -> "idle"
      [] p = "append_user"  -> "get_messages"
      [] p = "append_asst"  -> "run_tool"
      [] p = "append_tool"  -> "yield_result"
      [] p = "append_final" -> "yield_done"

\* Where a store call at position p returns to.  An exception in chat() ends
\* the request (HTTP 500); inside event_stream it reaches `except Exception`
\* of line 696.
AfterCall(p, outcome) ==
    CASE p = "client"       -> "idle"
      [] p = "append_user"  -> IF outcome = "ok" THEN "get_messages" ELSE "ended"
      [] outcome = "raise"  -> "yield_error"
      [] p = "append_asst"  -> "run_tool"
      [] p = "append_tool"  -> "yield_result"
      [] p = "append_final" -> "yield_done"

\* a lock the turn keeps until its last append
ReleasedAtTurnEnd(t, p) == IF p \in {"client", "append_final"} THEN NoOwner ELSE t

\* The owner of _lock when thread t leaves the `with self._lock:` block of a
\* call made at position p.
Released(t, p) == NoOwner

\* Control goes back to the caller of a store call: normally ("ok") or with the
\* exception _save raised ("raise").
Return(t, outcome, value) ==
    /\ lock' = Released(t, pc[t])
    /\ sv' = "idle"
    /\ op' = [op EXCEPT ![t] = NoOp]
    /\ ret' = IF pc[t] = "client"
              THEN (IF outcome = "ok" THEN value ELSE "raise")
              ELSE ret
    /\ pc' = [pc EXCEPT ![t] = AfterCall(pc[t], outcome)]
    /\ araise' = IF outcome = "raise" /\ pc[t] \in {"append_asst", "append_tool", "append_final"}
                 THEN [araise EXCEPT ![t] = TRUE] ELSE araise
    /\ hist' = IF outcome = "ok" /\ pc[t] \in {"append_asst", "append_tool", "append_final"}
               THEN [hist EXCEPT ![t] = Keep(Append(@, op[t].arg))] ELSE hist
    /\ ti' = IF outcome = "ok" /\ pc[t] = "append_asst"
             THEN [ti EXCEPT ![t] = NextCall(tcl[t], 0)] ELSE ti

\* `with self._lock:` and the in-memory part of the call; a call that does not
\* reach _save returns here.
store_enter(t) ==
    /\ pc[t] \in CallPcs
    /\ OnLoop(t)
    /\ op[t] # NoOp
    /\ lock = NoOwner
    /\ data' = Mutate(data, op[t])
    /\ applied' = CASE op[t].kind = "append" -> Keep(Append(applied, op[t].arg))
                    [] op[t].kind = "delete" /\ data[op[t].chat] # NoSession -> <<>>
                    [] OTHER -> applied
    /\ IF Saves(data, op[t])
       THEN /\ lock' = t
            /\ sv' = "mutated"
            /\ UNCHANGED <<op, ret, pc, hist, ti, araise>>
       ELSE Return(t, "ok", RetVal(op[t], FALSE))
    /\ UNCHANGED <<file, tmp, now, kills, nturns, nops, box, outq, stream, prod, tcl, res,
                   events, conn, round, xt, nreq, perr>>
    /\ UNCHANGED live
    /\ UNCHANGED auxVars
    /\ UNCHANGED body
    /\ UNCHANGED got

\* _save with the text written over the live file itself
save_open_live(t) ==
    /\ lock = t
    /\ OnLoop(t)
    /\ sv = "mutated"
    /\ file' = [snap |-> data, written |-> 0, size |-> DumpSize(data)]
    /\ tmp' = file'
    /\ sv' = "tmp_open"
    /\ UNCHANGED <<data, lock, now, kills, nturns, pc>>
    /\ UNCHANGED callVars
    /\ UNCHANGED turnVars
    /\ UNCHANGED araise
    /\ UNCHANGED live
    /\ UNCHANGED auxVars
    /\ UNCHANGED body

\* _save: json.dumps(self._data) and the opening of the temporary file, which
\* truncates it
save_open(t) ==
    /\ lock = t
    /\ OnLoop(t)
    /\ sv = "mutated"
    /\ tmp' = [snap |-> data, written |-> 0, size |-> DumpSize(data)]
    /\ sv' = "tmp_open"
    /\ UNCHANGED <<data, file, lock, now, kills, nturns, pc>>
    /\ UNCHANGED callVars
    /\ UNCHANGED turnVars
    /\ UNCHANGED araise
    /\ UNCHANGED live
    /\ UNCHANGED auxVars
    /\ UNCHANGED body

\* _save: write_text puts the text in the temporary file, in one write or
\* (partial) in two, the first of which leaves the text cut short
save_write(t, partial) ==
    /\ lock = t
    /\ OnLoop(t)
    /\ sv = "tmp_open"
    /\ \E k \in (IF partial /\ tmp.written = 0 THEN {tmp.size - 1} ELSE {}) \cup {tmp.size} :
          /\ tmp' = [tmp EXCEPT !.written = k]
          /\ sv' = IF k = tmp.size THEN "tmp_written" ELSE "tmp_open"
    /\ UNCHANGED <<data, file, lock, now, kills, nturns, pc>>
    /\ UNCHANGED callVars
    /\ UNCHANGED turnVars
    /\ UNCHANGED araise
    /\ UNCHANGED live
    /\ UNCHANGED auxVars
    /\ UNCHANGED body

\* _save: tmp.replace(self.path), then the call returns
save_replace(t) ==
    /\ lock = t
    /\ OnLoop(t)
    /\ sv = "tmp_written"
    /\ file' = tmp
    /\ tmp' = NoFile
    /\ Return(t, "ok", RetVal(op[t], TRUE))
    /\ UNCHANGED <<data, applied, nops, now, kills, nturns, box, outq, stream, prod, tcl,
                   res, events, conn, round, xt, nreq, perr>>
    /\ UNCHANGED live
    /\ UNCHANGED auxVars
    /\ UNCHANGED body
    /\ UNCHANGED got

\* _save raises at one of `stages`: the temporary file cannot be opened
\* ("mutated"), the write fails part way ("tmp_open"), or the replace fails
\* ("tmp_written")
SaveStages == {"mutated", "tmp_open", "tmp_written"}

save_fail(t, stages) ==
    /\ lock = t
    /\ OnLoop(t)
    /\ sv \in stages
    /\ Return(t, "raise", "raise")
    /\ UNCHANGED <<data, file, tmp, applied, nops, now, kills, nturns, box, outq, stream,
                   prod, tcl, res, events, conn, round, xt, nreq, perr>>
    /\ UNCHANGED live
    /\ UNCHANGED auxVars
    /\ UNCHANGED body
    /\ UNCHANGED got

\* ------------------------------------------------ direct store clients
\* A request handler other than chat calls the store: new_chat (create),
\* rename_session (rename, update_model), delete_session (delete); append
\* stands for any caller of SessionStore.append.
ClientOps(ts) ==
    { StoreOp("append", UserMsg("u"), ts), StoreOp("append", UserMsg("v"), ts),
      StoreOp("create", "t0", ts), StoreOp("rename", "t1", ts),
      StoreOp("update_model", "m2", ts), StoreOp("delete", None, ts) }

client_call(t, ops) ==
    /\ ~Running(t)
    /\ \A u \in Turns : u < t => Running(u)
    /\ nops < MaxOps
    /\ \E o \in ops :
          op' = [op EXCEPT ![t] = o]
    /\ pc' = [pc EXCEPT ![t] = "client"]
    /\ nops' = nops + 1
    /\ UNCHANGED <<data, file, tmp, lock, sv, now, kills, nturns, ret, applied>>
    /\ UNCHANGED turnVars
    /\ UNCHANGED araise
    /\ UNCHANGED live
    /\ UNCHANGED auxVars
    /\ UNCHANGED body

\* time.time() * 1000: a millisecond passes
tick ==
    /\ now < MaxNow
    /\ now' = now + 1
    /\ UNCHANGED <<data, file, tmp, lock, sv, kills, nturns, pc>>
    /\ UNCHANGED callVars
    /\ UNCHANGED turnVars
    /\ UNCHANGED live
    /\ UNCHANGED auxVars
    /\ UNCHANGED body

\* ----------------------------------------------------- abrupt termination
\* The process is killed and started again: every thread is gone, the store
\* is constructed anew from the live file (SessionStore.__init__ / _load).
kill ==
    /\ kills < MaxKills
    /\ kills' = kills + 1
    /\ data' = Load(file)
    /\ applied' = get_messages(Load(file), CHAT)
    /\ lock' = NoOwner
    /\ sv' = "idle"
    /\ op' = [t \in Turns |-> NoOp]
    /\ pc' = [t \in Turns |-> IF Running(t) THEN "ended" ELSE pc[t]]
    /\ conn' = [t \in Turns |-> IF Running(t) THEN FALSE ELSE conn[t]]
    /\ hist' = [t \in Turns |-> <<>>]
    /\ box' = [t \in Turns |-> NewBox]
    /\ outq' = [t \in Turns |-> <<>>]
    /\ stream' = [t \in Turns |-> <<>>]
    /\ prod' = [t \in Turns |-> "off"]
    /\ tcl' = [t \in Turns |-> <<>>]
    /\ ti' = [t \in Turns |-> 0]
    /\ res' = [t \in Turns |-> NoResult]
    /\ UNCHANGED <<file, tmp, now, nturns, nops, ret, events, round, xt, nreq, perr, araise>>
    /\ UNCHANGED live
    /\ UNCHANGED auxVars
    /\ UNCHANGED body
    /\ got' = [t \in Turns |-> NewRound(0)]

\* ------------------------------------------------- the chat request (chat)
Ended(t) ==
    /\ hist' = [hist EXCEPT ![t] = <<>>]
    /\ box' = [box EXCEPT ![t] = NewBox]
    /\ outq' = [outq EXCEPT ![t] = <<>>]
    /\ stream' = [stream EXCEPT ![t] = <<>>]
    /\ prod' = [prod EXCEPT ![t] = "off"]
    /\ tcl' = [tcl EXCEPT ![t] = <<>>]
    /\ ti' = [ti EXCEPT ![t] = 0]
    /\ res' = [res EXCEPT ![t] = NoResult]
    /\ got' = [got EXCEPT ![t] = NewRound(0)]

\* lines 328-340: a chat request arrives on a free thread; validation, then
\* the call that appends the user message.
\* solo: the request arrives only when no other turn is running.
chat(t, solo) ==
    /\ ~Running(t)
    /\ OnLoop(t)
    /\ \A u \in Turns : u < t => Running(u)
    /\ solo => \A u \in Turns \ {t} : ~Running(u)
    /\ live \/ (nturns < MaxTurns /\ round < MaxRounds)
    /\ nturns' = Count(nturns + 1, MaxTurns)
    /\ \E has_chat_id, has_message \in BOOLEAN :
          /\ body' = [body EXCEPT ![t] = Body(has_chat_id, has_message)]
          /\ IF Validate(Body(has_chat_id, has_message)) = 200
             THEN /\ pc' = [pc EXCEPT ![t] = "append_user"]
                  /\ op' = [op EXCEPT ![t] = StoreOp("append", UserMsg("u"), now)]
             ELSE /\ pc' = [pc EXCEPT ![t] = "rejected"]
                  /\ op' = op
    /\ events' = [events EXCEPT ![t] = <<>>]
    /\ conn' = [conn EXCEPT ![t] = TRUE]
    /\ round' = round
    /\ xt' = [xt EXCEPT ![t] = <<>>]
    /\ nreq' = [nreq EXCEPT ![t] = 0]
    /\ perr' = [perr EXCEPT ![t] = FALSE]
    /\ araise' = [araise EXCEPT ![t] = FALSE]
    /\ UNCHANGED <<data, file, tmp, lock, sv, now, kills, nops, ret, applied>>
    /\ UNCHANGED <<hist, box, outq, stream, prod, tcl, ti, res>>
    /\ UNCHANGED live
    /\ UNCHANGED auxVars
    /\ got' = [got EXCEPT ![t] = NewRound(0)]

\* line 341
get_history(t) ==
    /\ pc[t] = "get_messages"
    /\ OnLoop(t)
    /\ lock = NoOwner
    /\ hist' = [hist EXCEPT ![t] = get_messages(data, CHAT)]
    /\ pc' = [pc EXCEPT ![t] = "open"]
    /\ UNCHANGED <<data, file, tmp, lock, sv, now, kills, nturns>>
    /\ UNCHANGED callVars
    /\ UNCHANGED <<box, outq, stream, prod, tcl, ti, res, events, conn, round, xt,
                   nreq, perr, araise>>
    /\ UNCHANGED live
    /\ UNCHANGED auxVars
    /\ UNCHANGED body
    /\ UNCHANGED got

\* lines 361-363
yield_open(t) ==
    /\ pc[t] = "open"
    /\ OnLoop(t)
    /\ events' = [events EXCEPT ![t] = Keep(Append(@, OpenEv))]
    /\ pc' = [pc EXCEPT ![t] = "round"]
    /\ UNCHANGED <<data, file, tmp, lock, sv, now, kills, nturns>>
    /\ UNCHANGED callVars
    /\ UNCHANGED <<hist, box, outq, stream, prod, tcl, ti, res, conn, round, xt,
                   nreq, perr, araise>>
    /\ UNCHANGED live
    /\ UNCHANGED auxVars
    /\ UNCHANGED body
    /\ UNCHANGED got

\* lines 419-469 and 585-586: a round begins; the producer thread issues the
\* streaming request, which the provider will answer with one of `scripts`
start_round(t, scripts) ==
    /\ pc[t] = "round"
    /\ OnLoop(t)
    /\ lock = NoOwner
    /\ \E sc \in scripts : stream' = [stream EXCEPT ![t] = sc]
    /\ box' = [box EXCEPT ![t] = NewBox]
    /\ outq' = [outq EXCEPT ![t] = <<>>]
    /\ prod' = [prod EXCEPT ![t] = "streaming"]
    /\ round' = Count(round + 1, MaxRounds)
    /\ nreq' = [nreq EXCEPT ![t] = Count(@ + 1, MaxRounds)]
    /\ xt' = [xt EXCEPT ![t] = <<>>]
    /\ pc' = [pc EXCEPT ![t] = "relay"]
    /\ UNCHANGED <<data, file, tmp, lock, sv, now, kills, nturns>>
    /\ UNCHANGED callVars
    /\ UNCHANGED <<hist, tcl, ti, res, events, conn, perr>>
    /\ UNCHANGED araise
    /\ UNCHANGED live
    /\ UNCHANGED auxVars
    /\ UNCHANGED body
    /\ got' = [got EXCEPT ![t] = [NewRound(Len(events[t])) EXCEPT
                                     !.sent = <<Request(TRUE, hist[t])>>]]

\* lines 470-547: one chunk of the stream
producer_delta(t) ==
    /\ prod[t] = "streaming"
    /\ stream[t] # <<>>
    /\ box' = [box EXCEPT ![t] = ApplyDelta(@, Head(stream[t]))]
    /\ outq' = [outq EXCEPT ![t] = @ \o DeltaEvents(Head(stream[t]))]
    /\ stream' = [stream EXCEPT ![t] = Tail(@)]
    /\ UNCHANGED <<data, file, tmp, lock, sv, now, kills, nturns, pc>>
    /\ UNCHANGED callVars
    /\ UNCHANGED <<hist, prod, tcl, ti, res, events, conn, round, xt, nreq, perr, araise>>
    /\ UNCHANGED live
    /\ UNCHANGED auxVars
    /\ UNCHANGED body
    /\ got' = [got EXCEPT ![t].deltas = Append(@, Head(stream[t]))]

\* lines 548 and 582-583: the stream is exhausted
producer_end(t) ==
    /\ prod[t] = "streaming"
    /\ stream[t] = <<>>
    /\ outq' = [outq EXCEPT ![t] = Append(@, STREAM_DONE)]
    /\ prod' = [prod EXCEPT ![t] = "off"]
    /\ UNCHANGED <<data, file, tmp, lock, sv, now, kills, nturns, pc>>
    /\ UNCHANGED callVars
    /\ UNCHANGED <<hist, box, stream, tcl, ti, res, events, conn, round, xt, nreq, perr, araise>>
    /\ UNCHANGED live
    /\ UNCHANGED auxVars
    /\ UNCHANGED body
    /\ UNCHANGED got

\* lines 549-551 and 580-583: the streaming request raises one of `errors`,
\* on create() or while the stream is consumed
producer_fail(t, errors) ==
    /\ prod[t] = "streaming"
    /\ \E e \in errors :
          /\ got' = [got EXCEPT ![t].err = e]
          /\ IF FallsBack(e)
             THEN /\ prod' = [prod EXCEPT ![t] = "fallback"]
                  /\ UNCHANGED <<box, outq, perr>>
             ELSE /\ box' = [box EXCEPT ![t].error = "error"]
                  /\ outq' = [outq EXCEPT ![t] = Append(@, STREAM_DONE)]
                  /\ prod' = [prod EXCEPT ![t] = "off"]
                  /\ perr' = [perr EXCEPT ![t] = TRUE]
    /\ stream' = [stream EXCEPT ![t] = <<>>]
    /\ UNCHANGED <<data, file, tmp, lock, sv, now, kills, nturns, pc>>
    /\ UNCHANGED callVars
    /\ UNCHANGED <<hist, tcl, ti, res, events, conn, round, xt, nreq>>
    /\ UNCHANGED araise
    /\ UNCHANGED live
    /\ UNCHANGED auxVars
    /\ UNCHANGED body

\* lines 552-579 and 582-583: the non-streaming request, answered with one of
\* `responses` or failing
producer_fallback(t, responses) ==
    /\ prod[t] = "fallback"
    /\ nreq' = [nreq EXCEPT ![t] = Count(@ + 1, MaxRounds)]
    /\ \/ \E r \in responses :
             /\ got' = [got EXCEPT ![t].resp = r,
                                    ![t].sent = Append(@, Request(FALSE, hist[t]))]
             /\ box' = [box EXCEPT ![t] = ApplyResponse(@, r)]
             /\ outq' = [outq EXCEPT ![t] = @ \o Slices(r.content, step) \o <<STREAM_DONE>>]
             /\ perr' = perr
       \/ /\ box' = [box EXCEPT ![t].error = "error"]
          /\ outq' = [outq EXCEPT ![t] = Append(@, STREAM_DONE)]
          /\ perr' = [perr EXCEPT ![t] = TRUE]
          /\ got' = [got EXCEPT ![t].sent = Append(@, Request(FALSE, hist[t]))]
    /\ prod' = [prod EXCEPT ![t] = "off"]
    /\ UNCHANGED <<data, file, tmp, lock, sv, now, kills, nturns, pc>>
    /\ UNCHANGED callVars
    /\ UNCHANGED <<hist, stream, tcl, ti, res, events, conn, round, xt>>
    /\ UNCHANGED araise
    /\ UNCHANGED live
    /\ UNCHANGED auxVars
    /\ UNCHANGED body

\* a queue that hands out its newest item
QueueGetNewest(q) == [line |-> q[Len(q)], rest |-> SubSeq(q, 1, Len(q) - 1)]

\* out_q.get() on queue.Queue, first in first out: the item and what is left
QueueGet(q) == [line |-> Head(q), rest |-> Tail(q)]

\* lines 589-596: one line taken from out_q and yielded
relay(t) ==
    /\ pc[t] = "relay"
    /\ OnLoop(t)
    /\ outq[t] # <<>>
    /\ QueueGet(outq[t]).line # STREAM_DONE
    /\ events' = [events EXCEPT ![t] = Keep(Append(@, QueueGet(outq[t]).line))]
    /\ outq' = [outq EXCEPT ![t] = QueueGet(@).rest]
    /\ UNCHANGED <<data, file, tmp, lock, sv, now, kills, nturns, pc>>
    /\ UNCHANGED callVars
    /\ UNCHANGED <<hist, box, stream, prod, tcl, ti, res, conn, round, xt, nreq, perr, araise>>
    /\ UNCHANGED live
    /\ UNCHANGED auxVars
    /\ UNCHANGED body
    /\ UNCHANGED got

\* lines 591-592 and 598-629 / 685-691: the sentinel ends the relay; the turn
\* reads state_box and builds the message it will append
decide(t) ==
    /\ pc[t] = "relay"
    /\ OnLoop(t)
    /\ outq[t] # <<>>
    /\ QueueGet(outq[t]).line = STREAM_DONE
    /\ outq' = [outq EXCEPT ![t] = QueueGet(@).rest]
    /\ IF DispatchesTools(box[t])
       THEN /\ tcl' = [tcl EXCEPT ![t] = ToolCallsList(box[t].tool_calls_state)]
            /\ op' = [op EXCEPT ![t] = StoreOp("append", ToolCallMsg(box[t]), now)]
            /\ pc' = [pc EXCEPT ![t] = "append_asst"]
       ELSE /\ tcl' = tcl
            /\ op' = [op EXCEPT ![t] = StoreOp("append", FinalMsg(box[t]), now)]
            /\ pc' = [pc EXCEPT ![t] = "append_final"]
    /\ UNCHANGED <<data, file, tmp, lock, sv, now, kills, nturns, nops, ret, applied>>
    /\ UNCHANGED <<hist, box, stream, prod, ti, res, events, conn, round, xt, nreq, perr, araise>>
    /\ UNCHANGED live
    /\ UNCHANGED auxVars
    /\ UNCHANGED body
    /\ UNCHANGED got

\* lines 636-665: one tool call is executed and its tool message built;
\* `outcomes` is what the capability may do: "ok", "raise"
run_tool(t, outcomes) ==
    /\ pc[t] = "run_tool"
    /\ OnLoop(t)
    /\ LET tc == tcl[t][ti[t]]
       IN  \E outcome \in outcomes :
              /\ res' = [res EXCEPT ![t] = ToolResult(hist[t], tc, outcome)]
              /\ xt' = [xt EXCEPT ![t] =
                          Append(@, [pos |-> ti[t], name |-> tc.name,
                                     invoked |-> ToolRuns(hist[t], tc),
                                     parsed |-> ToolLoads(hist[t], tc),
                                     raised |-> ToolRuns(hist[t], tc) /\ outcome = "raise"])]
              /\ op' = [op EXCEPT ![t] =
                          StoreOp("append", ToolMsg(tc, ToolResult(hist[t], tc, outcome)), now)]
    /\ pc' = [pc EXCEPT ![t] = "append_tool"]
    /\ UNCHANGED <<data, file, tmp, lock, sv, now, kills, nturns, nops, ret, applied>>
    /\ UNCHANGED <<hist, box, outq, stream, prod, tcl, ti, events, conn, round, nreq, perr, araise>>
    /\ UNCHANGED live
    /\ UNCHANGED auxVars
    /\ UNCHANGED body
    /\ UNCHANGED got

\* lines 669-682: the tool_result line is yielded; the loop goes on to the
\* next call or to the next round
yield_result(t) ==
    /\ pc[t] = "yield_result"
    /\ OnLoop(t)
    /\ LET tc == tcl[t][ti[t]]
       IN  events' = [events EXCEPT ![t] = Keep(Append(@, ToolResultEv(tc.id, tc.name, res[t])))]
    /\ IF Len(xt[t]) < Len(tcl[t])
       THEN /\ ti' = [ti EXCEPT ![t] = NextCall(tcl[t], Len(xt[t]))]
            /\ pc' = [pc EXCEPT ![t] = "run_tool"]
       ELSE /\ ti' = ti
            /\ pc' = [pc EXCEPT ![t] = "round"]
    /\ UNCHANGED <<data, file, tmp, lock, sv, now, kills, nturns>>
    /\ UNCHANGED callVars
    /\ UNCHANGED <<hist, box, outq, stream, prod, tcl, res, conn, round, xt, nreq, perr, araise>>
    /\ UNCHANGED live
    /\ UNCHANGED auxVars
    /\ UNCHANGED body
    /\ UNCHANGED got

\* where the loop goes after `yield done` when line 695 is missing
AfterDoneNoBreak == "round"

\* line 695: break
AfterDone == "ended"

\* lines 694-695
yield_done(t) ==
    /\ pc[t] = "yield_done"
    /\ OnLoop(t)
    /\ events' = [events EXCEPT ![t] = Keep(Append(@, DoneEv))]
    /\ pc' = [pc EXCEPT ![t] = AfterDone]
    /\ Ended(t)
    /\ UNCHANGED <<data, file, tmp, lock, sv, now, kills, nturns>>
    /\ UNCHANGED callVars
    /\ UNCHANGED <<conn, round, xt, nreq, perr, araise>>
    /\ UNCHANGED live
    /\ UNCHANGED auxVars
    /\ UNCHANGED body

\* lines 696-702
yield_error(t) ==
    /\ pc[t] = "yield_error"
    /\ OnLoop(t)
    /\ events' = [events EXCEPT ![t] = Keep(Append(@, ErrorEv))]
    /\ pc' = [pc EXCEPT ![t] = "ended"]
    /\ Ended(t)
    /\ UNCHANGED <<data, file, tmp, lock, sv, now, kills, nturns>>
    /\ UNCHANGED callVars
    /\ UNCHANGED <<conn, round, xt, nreq, perr, araise>>
    /\ UNCHANGED live
    /\ UNCHANGED auxVars
    /\ UNCHANGED body

\* The client closes the connection: the response is cancelled and the
\* generator is closed where it is suspended (GeneratorExit / CancelledError
\* pass `except Exception`), so nothing after that point runs.
disconnect(t) ==
    /\ conn[t]
    /\ Suspended(t)
    /\ conn' = [conn EXCEPT ![t] = FALSE]
    /\ pc' = [pc EXCEPT ![t] = "ended"]
    /\ Ended(t)
    /\ UNCHANGED <<data, file, tmp, lock, sv, now, kills, nturns>>
    /\ UNCHANGED callVars
    /\ UNCHANGED <<events, round, xt, nreq, perr, araise>>
    /\ UNCHANGED live
    /\ UNCHANGED auxVars
    /\ UNCHANGED body

\* ------------------------------------------------------- specifications
\* The store under direct calls from concurrent threads, failing writes and
\* abrupt termination.
NextStore ==
    \/ \E t \in Turns : client_call(t, ClientOps(now))
    \/ \E t \in Turns : store_enter(t)
    \/ \E t \in Turns : save_open(t)
    \/ \E t \in Turns : save_write(t, TRUE)
    \/ \E t \in Turns : save_replace(t)
    \/ \E t \in Turns : save_fail(t, SaveStages)
    \/ kill

SpecStore == Init /\ [][NextStore]_vars

\* The store under direct calls from concurrent threads while the clock
\* advances: each caller evaluates its updated_at argument, then calls.
NextTime ==
    \/ \E t \in Turns : client_call(t, ClientOps(now))
    \/ \E t \in Turns : store_enter(t)
    \/ \E t \in Turns : save_open(t)
    \/ \E t \in Turns : save_write(t, FALSE)
    \/ \E t \in Turns : save_replace(t)
    \/ tick

SpecTime == Init /\ [][NextTime]_vars

\* Chat turns one after the other on one session, with clients that may
\* disconnect and store writes that may fail.
Next ==
    \/ \E t \in Turns : chat(t, TRUE)
    \/ \E t \in Turns : store_enter(t)
    \/ \E t \in Turns : save_open(t)
    \/ \E t \in Turns : save_write(t, FALSE)
    \/ \E t \in Turns : save_replace(t)
    \/ \E t \in Turns : save_fail(t, {"mutated"})
    \/ \E t \in Turns : get_history(t)
    \/ \E t \in Turns : yield_open(t)
    \/ \E t \in Turns : start_round(t, Scripts(MaxRounds - round))
    \/ \E t \in Turns : producer_delta(t)
    \/ \E t \in Turns : producer_end(t)
    \/ \E t \in Turns : producer_fail(t, StatusErrors)
    \/ \E t \in Turns : producer_fallback(t, Responses(MaxRounds - round + 1))
    \/ \E t \in Turns : relay(t)
    \/ \E t \in Turns : decide(t)
    \/ \E t \in Turns : run_tool(t, {"ok", "raise"})
    \/ \E t \in Turns : yield_result(t)
    \/ \E t \in Turns : yield_done(t)
    \/ \E t \in Turns : yield_error(t)
    \/ \E t \in Turns : disconnect(t)

Spec == Init /\ [][Next]_vars

\* The same turns with store writes that always succeed.
NextConn ==
    \/ \E t \in Turns : chat(t, TRUE)
    \/ \E t \in Turns : store_enter(t)
    \/ \E t \in Turns : save_open(t)
    \/ \E t \in Turns : save_write(t, FALSE)
    \/ \E t \in Turns : save_replace(t)
    \/ \E t \in Turns : get_history(t)
    \/ \E t \in Turns : yield_open(t)
    \/ \E t \in Turns : start_round(t, Scripts(MaxRounds - round))
    \/ \E t \in Turns : producer_delta(t)
    \/ \E t \in Turns : producer_end(t)
    \/ \E t \in Turns : producer_fail(t, StatusErrors)
    \/ \E t \in Turns : producer_fallback(t, Responses(MaxRounds - round + 1))
    \/ \E t \in Turns : relay(t)
    \/ \E t \in Turns : decide(t)
    \/ \E t \in Turns : run_tool(t, {"ok"})
    \/ \E t \in Turns : yield_result(t)
    \/ \E t \in Turns : yield_done(t)
    \/ \E t \in Turns : disconnect(t)

SpecConn == Init /\ [][NextConn]_vars

\* One session under chat turns and abrupt termination.
NextKill ==
    \/ \E t \in Turns : chat(t, TRUE)
    \/ \E t \in Turns : store_enter(t)
    \/ \E t \in Turns : save_open(t)
    \/ \E t \in Turns : save_write(t, TRUE)
    \/ \E t \in Turns : save_replace(t)
    \/ \E t \in Turns : get_history(t)
    \/ \E t \in Turns : yield_open(t)
    \/ \E t \in Turns : start_round(t, Scripts(MaxRounds - round))
    \/ \E t \in Turns : producer_delta(t)
    \/ \E t \in Turns : producer_end(t)
    \/ \E t \in Turns : producer_fail(t, StatusErrors)
    \/ \E t \in Turns : producer_fallback(t, Responses(MaxRounds - round + 1))
    \/ \E t \in Turns : relay(t)
    \/ \E t \in Turns : decide(t)
    \/ \E t \in Turns : run_tool(t, {"ok"})
    \/ \E t \in Turns : yield_result(t)
    \/ \E t \in Turns : yield_done(t)
    \/ kill

SpecKill == Init /\ [][NextKill]_vars

\* Chat turns of any number of rounds with a client that stays connected and
\* store writes that succeed: the provider may ask for tools in every round.
NextLive ==
    \/ \E t \in Turns : chat(t, TRUE)
    \/ \E t \in Turns : store_enter(t)
    \/ \E t \in Turns : save_open(t)
    \/ \E t \in Turns : save_write(t, FALSE)
    \/ \E t \in Turns : save_replace(t)
    \/ \E t \in Turns : get_history(t)
    \/ \E t \in Turns : yield_open(t)
    \/ \E t \in Turns : start_round(t, FinalScripts \cup ToolScripts)
    \/ \E t \in Turns : producer_delta(t)
    \/ \E t \in Turns : producer_end(t)
    \/ \E t \in Turns : producer_fail(t, StatusErrors)
    \/ \E t \in Turns : producer_fallback(t, Responses(MaxRounds))
    \/ \E t \in Turns : relay(t)
    \/ \E t \in Turns : decide(t)
    \/ \E t \in Turns : run_tool(t, {"ok", "raise"})
    \/ \E t \in Turns : yield_result(t)
    \/ \E t \in Turns : yield_done(t)

\* The event loop resumes a generator that can go on, the producer thread
\* runs, and every provider request, tool invocation and store call returns
\* or raises.  Nothing obliges a client to send a request or a provider
\* request to raise.
FairLive ==
    \A t \in Turns :
        /\ WF_vars(store_enter(t))
        /\ WF_vars(save_open(t))
        /\ WF_vars(save_write(t, FALSE))
        /\ WF_vars(save_replace(t))
        /\ WF_vars(get_history(t))
        /\ WF_vars(yield_open(t))
        /\ WF_vars(start_round(t, FinalScripts \cup ToolScripts))
        /\ WF_vars(producer_delta(t))
        /\ WF_vars(producer_end(t))
        /\ WF_vars(producer_fallback(t, Responses(MaxRounds)))
        /\ WF_vars(relay(t))
        /\ WF_vars(decide(t))
        /\ WF_vars(run_tool(t, {"ok", "raise"}))
        /\ WF_vars(yield_result(t))
        /\ WF_vars(yield_done(t))

SpecLive == InitLive /\ [][NextLive]_vars /\ FairLive

\* One chat turn whose first round is answered with any stream of AggScripts,
\* or, streaming refused at any point of it, with any response of
\* AggResponses, and whose later rounds are answered with a final text; store
\* writes succeed, tools return and the client stays connected.
NextAgg ==
    \/ \E t \in Turns : nturns = 0 /\ chat(t, TRUE)
    \/ \E t \in Turns : store_enter(t)
    \/ \E t \in Turns : save_open(t)
    \/ \E t \in Turns : save_write(t, FALSE)
    \/ \E t \in Turns : save_replace(t)
    \/ \E t \in Turns : get_history(t)
    \/ \E t \in Turns : yield_open(t)
    \/ \E t \in Turns : start_round(t, IF round = 0 THEN AggScripts ELSE FinalScripts)
    \/ \E t \in Turns : producer_delta(t)
    \/ \E t \in Turns : producer_end(t)
    \/ \E t \in Turns : producer_fail(t, Errors)
    \/ \E t \in Turns : producer_fallback(t, IF round = 1 THEN AggResponses
                                               ELSE Responses(1))
    \/ \E t \in Turns : relay(t)
    \/ \E t \in Turns : decide(t)
    \/ \E t \in Turns : run_tool(t, {"ok"})
    \/ \E t \in Turns : yield_result(t)
    \/ \E t \in Turns : yield_done(t)

SpecAgg == Init /\ [][NextAgg]_vars

\* Chat turns on one session that run at the same time, as coroutines of the
\* event loop with their producer threads; store writes succeed and the
\* clients stay connected.
NextPair ==
    \/ \E t \in Turns : chat(t, FALSE)
    \/ \E t \in Turns : store_enter(t)
    \/ \E t \in Turns : save_open(t)
    \/ \E t \in Turns : save_write(t, FALSE)
    \/ \E t \in Turns : save_replace(t)
    \/ \E t \in Turns : get_history(t)
    \/ \E t \in Turns : yield_open(t)
    \/ \E t \in Turns : start_round(t, Scripts(MaxRounds - round))
    \/ \E t \in Turns : producer_delta(t)
    \/ \E t \in Turns : producer_end(t)
    \/ \E t \in Turns : relay(t)
    \/ \E t \in Turns : decide(t)
    \/ \E t \in Turns : run_tool(t, {"ok"})
    \/ \E t \in Turns : yield_result(t)
    \/ \E t \in Turns : yield_done(t)

SpecPair == Init /\ [][NextPair]_vars

\* Chat turns on one session that run at the same time, every request valid,
\* every round answered with a stream of one tool call or with a final text.
LockScripts(left) ==
    FinalScripts \cup
    (IF left <= 1 THEN {}
     ELSE { <<CallsDelta(<<TcDelta(0, "p0", "sql_schema", ARGS)>>),
              FinishDelta("tool_calls")>> })

NextLock ==
    \/ \E t \in Turns : chat(t, FALSE) /\ body'[t] = Body(TRUE, TRUE)
    \/ \E t \in Turns : store_enter(t)
    \/ \E t \in Turns : save_open(t)
    \/ \E t \in Turns : save_write(t, FALSE)
    \/ \E t \in Turns : save_replace(t)
    \/ \E t \in Turns : get_history(t)
    \/ \E t \in Turns : yield_open(t)
    \/ \E t \in Turns : start_round(t, LockScripts(MaxRounds - round))
    \/ \E t \in Turns : producer_delta(t)
    \/ \E t \in Turns : producer_end(t)
    \/ \E t \in Turns : relay(t)
    \/ \E t \in Turns : decide(t)
    \/ \E t \in Turns : run_tool(t, {"ok"})
    \/ \E t \in Turns : yield_result(t)
    \/ \E t \in Turns : yield_done(t)

SpecLock == Init /\ [][NextLock]_vars

\* Chat turns one after the other on one session while the session is
\* deleted (DELETE /api/sessions/{chat_id}) or created (POST /api/new_chat) by
\* other requests; store writes succeed and the client stays connected.
SessionOps(ts) == { StoreOp("delete", None, ts), StoreOp("create", "t0", ts) }

NextDelete ==
    \/ \E t \in Turns : chat(t, TRUE)
    \/ \E t \in Turns : client_call(t, SessionOps(now))
    \/ \E t \in Turns : store_enter(t)
    \/ \E t \in Turns : save_open(t)
    \/ \E t \in Turns : save_write(t, FALSE)
    \/ \E t \in Turns : save_replace(t)
    \/ \E t \in Turns : get_history(t)
    \/ \E t \in Turns : yield_open(t)
    \/ \E t \in Turns : start_round(t, Scripts(MaxRounds - round))
    \/ \E t \in Turns : producer_delta(t)
    \/ \E t \in Turns : producer_end(t)
    \/ \E t \in Turns : relay(t)
    \/ \E t \in Turns : decide(t)
    \/ \E t \in Turns : run_tool(t, {"ok"})
    \/ \E t \in Turns : yield_result(t)
    \/ \E t \in Turns : yield_done(t)

SpecDelete == Init /\ [][NextDelete]_vars

\* Chat turns one after the other whose every round but the last of the run
\* may ask for tools; store writes succeed and the client stays connected.
RoundScripts(started) ==
    IF started < MaxRounds THEN FinalScripts \cup ToolScripts ELSE FinalScripts

NextIds ==
    \/ \E t \in Turns : chat(t, TRUE)
    \/ \E t \in Turns : store_enter(t)
    \/ \E t \in Turns : save_open(t)
    \/ \E t \in Turns : save_write(t, FALSE)
    \/ \E t \in Turns : save_replace(t)
    \/ \E t \in Turns : get_history(t)
    \/ \E t \in Turns : yield_open(t)
    \/ \E t \in Turns : start_round(t, RoundScripts(round))
    \/ \E t \in Turns : producer_delta(t)
    \/ \E t \in Turns : producer_end(t)
    \/ \E t \in Turns : relay(t)
    \/ \E t \in Turns : decide(t)
    \/ \E t \in Turns : run_tool(t, {"ok"})
    \/ \E t \in Turns : yield_result(t)
    \/ \E t \in Turns : yield_done(t)

SpecIds == Init /\ [][NextIds]_vars

\* ------------------------------------------------------------------ claims
Last(q) == q[Len(q)]

Log == get_messages(data, CHAT)

HasEvent(t, type) == \E i \in 1..Len(events[t]) : events[t][i].type = type

CountEvents(t, type) == Cardinality({i \in 1..Len(events[t]) : events[t][i].type = type})

Terminal(e) == e.type \in {"done", "error"}

EndedWith(t, type) ==
    pc[t] = "ended" /\ events[t] # <<>> /\ Last(events[t]).type = type

\* the assistant message at position i of log is answered: the next messages
\* are one tool message per tool-call record, in record order, with its id,
\* and no further tool message follows them
Answered(log, i) ==
    LET n == Len(log[i].tool_calls)
    IN  /\ i + n <= Len(log)
        /\ \A k \in 1..n : /\ log[i + k].role = "tool"
                            /\ log[i + k].tool_call_id = log[i].tool_calls[k].id
        /\ i + n < Len(log) => log[i + n + 1].role # "tool"

Paired(log) ==
    \A i \in 1..Len(log) :
        (log[i].role = "assistant" /\ log[i].tool_calls # <<>>) => Answered(log, i)

\* C1: turns running one at a time; whenever a turn has ended with a done
\* event, every assistant message with tool calls in the session's log is
\* followed at once by one tool message per tool-call record, in order and
\* with the record's id.
C1_PairedAtDone ==
    \A t \in Turns : EndedWith(t, "done") => Paired(Log)


\* C2: after any sequence of append calls on a session, applied by any threads
\* and with no delete in between, get_messages returns exactly the appended
\* messages in the order the appends were applied.
C2_AppendOrder == get_messages(data, CHAT) = applied

\* Three appends were applied, the last of them while another thread was
\* waiting for the store lock with an append of its own.
C2_Witness ==
    /\ kills = 0
    /\ Len(applied) >= 2
    /\ applied[1] # applied[2]
    /\ \E t, u \in Turns : /\ lock = t /\ op[t].kind = "append"
                           /\ u # t /\ pc[u] = "client" /\ op[u].kind = "append"

\* C3: the live file is absent or a complete serialised snapshot, and whenever
\* it changes it becomes the complete snapshot of the map the operation in
\* progress produced; a kill at any step leaves it as it was.
C3_LiveFileComplete ==
    /\ [](file = NoFile \/ Parses(file))
    /\ [][file' # file => (Parses(file') /\ file'.snap = data /\ lock # NoOwner)]_vars

\* The process was killed inside _save: the temporary file holds a partial
\* text while the live file holds the complete earlier snapshot.
C3_Witness ==
    /\ kills > 0
    /\ tmp # NoFile /\ ~Parses(tmp)
    /\ file # NoFile /\ Parses(file)
    /\ tmp.snap # file.snap

\* C4: in the event stream of a turn a terminal event (done or error) is the
\* last event: at most one is emitted, never both, and nothing follows it.
C4_OneTerminalLast ==
    \A t \in Turns : \A i \in 1..Len(events[t]) :
        Terminal(events[t][i]) => i = Len(events[t])

\* A turn that executed a tool and sent its result ended with an error event.
C4_Witness ==
    \E t \in Turns : /\ EndedWith(t, "error")
                     /\ HasEvent(t, "tool_result")

\* C5: every chat turn that has passed request validation eventually has a
\* terminal done or error event as the last event sent to its client, who
\* stays connected, when every provider request and every tool invocation
\* returns or raises.
C5_EventuallyTerminal ==
    \A t \in Turns :
        (pc[t] = "append_user") ~> (events[t] # <<>> /\ Terminal(Last(events[t])))

\* C6: when a provider request of a turn has failed without recovery, the turn
\* emits no done event, persists no assistant message for the round, issues no
\* further provider request and ends with exactly one error event.
C6_ProviderFailureIsError ==
    \A t \in Turns : perr[t] =>
        /\ ~HasEvent(t, "done")
        /\ pc[t] \notin {"append_asst", "append_final", "run_tool", "append_tool",
                         "yield_result", "yield_done"}
        /\ (pc[t] = "ended" /\ conn[t]) => CountEvents(t, "error") = 1

\* C7: once a store.append of a turn's event stream has raised, the turn is
\* on its way to the error event or has ended with exactly one error event
\* as its last event and no done event, and from then on it executes no tool
\* and issues no provider request.
C7_AppendFailureIsError ==
    /\ [](\A t \in Turns : araise[t] =>
            /\ pc[t] \in {"yield_error", "ended"}
            /\ ~HasEvent(t, "done")
            /\ pc[t] = "ended" => (EndedWith(t, "error") /\ CountEvents(t, "error") = 1))
    /\ [][\A t \in Turns : (araise[t] /\ araise'[t]) =>
            (nreq'[t] = nreq[t] /\ xt'[t] = xt[t] /\ prod'[t] = "off")]_vars

\* The append of a tool message raised and the turn ended with the error
\* event.
C7_Witness ==
    \E t \in Turns : /\ araise[t]
                     /\ EndedWith(t, "error")
                     /\ Len(xt[t]) >= 1

\* the tool call the turn is at is a sql_query and the turn's history holds
\* no tool message named sql_schema
Gated(t) ==
    /\ tcl[t][ti[t]].name = "sql_query"
    /\ \A i \in 1..Len(hist[t]) : ~(hist[t][i].role = "tool" /\ hist[t][i].name = "sql_schema")

\* C8: a sql_query call processed while the history holds no sql_schema tool
\* message does not invoke the capability and raises nothing: its result is
\* the schema_required value, which is what the tool message appended for it
\* and the tool_result event carry, and after that event the turn goes on to
\* the next tool call or the next provider round.
C8_SchemaFirst ==
    /\ [][\A t \in Turns : (pc[t] = "run_tool" /\ pc'[t] # "run_tool" /\ Gated(t)) =>
            /\ pc'[t] = "append_tool"
            /\ res'[t] = SchemaRequired
            /\ ~Last(xt'[t]).invoked
            /\ op'[t].kind = "append"
            /\ op'[t].arg.role = "tool"
            /\ op'[t].arg.tool_call_id = tcl[t][ti[t]].id
            /\ op'[t].arg.content = Dumps(SchemaRequired)]_vars
    /\ [][\A t \in Turns : (pc[t] = "yield_result" /\ pc'[t] # "yield_result"
                            /\ res[t] = SchemaRequired) =>
            /\ Last(events'[t]) = ToolResultEv(tcl[t][ti[t]].id, "sql_query", SchemaRequired)
            /\ Last(hist[t]).content = Dumps(SchemaRequired)
            /\ Last(Log).content = Dumps(SchemaRequired)
            /\ pc'[t] \in {"run_tool", "round"}]_vars

\* A gated sql_query was answered with schema_required and the turn is at the
\* next tool call of the round.
C8_Witness ==
    \E t \in Turns : /\ pc[t] = "run_tool"
                     /\ Len(xt[t]) = 1
                     /\ xt[t][1].name = "sql_query"
                     /\ ~xt[t][1].invoked
                     /\ Last(events[t]).output = SchemaRequired

\* the last k messages of log are the tool messages of the first k records of
\* l, in that order, and the message before them carries the records of l
RoundTail(log, l, k) ==
    /\ Len(log) > k
    /\ log[Len(log) - k].role = "assistant"
    /\ log[Len(log) - k].tool_calls = l
    /\ \A j \in 1..k : /\ log[Len(log) - k + j].role = "tool"
                       /\ log[Len(log) - k + j].tool_call_id = l[j].id
                       /\ log[Len(log) - k + j].name = l[j].name

\* C9: the tool calls of a round are processed one at a time in ascending
\* position order, and when call k+1 starts the tool messages of calls 1..k
\* are in the saved log, in that order, after the round's assistant message.
C9_ToolsInOrder ==
    \A t \in Turns :
        /\ \A k \in 1..Len(xt[t]) : xt[t][k].pos = k
        /\ pc[t] = "run_tool" =>
              /\ ti[t] = Len(xt[t]) + 1
              /\ RoundTail(Log, tcl[t], Len(xt[t]))
              /\ Parses(file)
              /\ RoundTail(get_messages(Load(file), CHAT), tcl[t], Len(xt[t]))

\* The second call of a two-call round is about to start.
C9_Witness ==
    \E t \in Turns : /\ pc[t] = "run_tool"
                     /\ Len(tcl[t]) = 2
                     /\ Len(xt[t]) = 1
                     /\ ti[t] = 2

\* turn t is in a two-call round whose first tool message has been saved and
\* whose second has not
BetweenToolMessages(t) ==
    /\ Len(tcl[t]) = 2
    /\ \/ pc[t] \in {"yield_result", "run_tool"} /\ Len(xt[t]) = 1
       \/ pc[t] = "append_tool" /\ Len(xt[t]) = 2

\* C10: a kill between the saving of the first and of the second tool message
\* of a two-call round leaves a live file that parses, and the log loaded from
\* it ends with the round's assistant message and exactly the first tool
\* message.
C10_KillBetweenToolMessages ==
    [][\A t \in Turns : (kills' = kills + 1 /\ BetweenToolMessages(t)) =>
          /\ Parses(file')
          /\ data' = file'.snap
          /\ RoundTail(get_messages(data', CHAT), tcl[t], 1)]_vars

\* The process was killed while the second tool message was being written to
\* the temporary file.
C10_Witness ==
    /\ kills = 1
    /\ tmp # NoFile /\ ~Parses(tmp)
    /\ Len(Log) >= 2
    /\ Last(Log).role = "tool"
    /\ Log[Len(Log) - 1].role = "assistant"
    /\ Len(Log[Len(Log) - 1].tool_calls) = 2
    /\ Len(get_messages(tmp.snap, CHAT)) = Len(Log) + 1

\* ------------------------------------------------- claims on the aggregator
RECURSIVE Concat(_)
\* the texts of a sequence of texts, joined
Concat(q) == IF q = <<>> THEN <<>> ELSE Head(q) \o Concat(Tail(q))

\* the lines the client has received in the current round of turn t
RoundEvents(t) == SubSeq(events[t], got[t].from + 1, Len(events[t]))

\* the text of the chunk events among them, joined
ChunkText(t) ==
    Concat([i \in 1..Len(RoundEvents(t)) |->
              IF RoundEvents(t)[i].type = "chunk" THEN RoundEvents(t)[i].text ELSE <<>>])

\* the content pieces the stream of the round has delivered, joined
DeltaText(t) ==
    Concat([i \in 1..Len(got[t].deltas) |-> got[t].deltas[i].content])

\* the stream of the round carried no tool-call fragment and ended normally
PlainStream(t) ==
    /\ ~box[t].fallback
    /\ box[t].error = None
    /\ got[t].deltas # <<>>
    /\ \A i \in 1..Len(got[t].deltas) : got[t].deltas[i].tool_calls = <<>>

\* C11: when the final assistant message of a round streamed without tool
\* calls has been persisted, the chunk events of the round joined, the content
\* deltas joined in arrival order and the content of that message are equal.
C11_ChunksAreContent ==
    \A t \in Turns : (pc[t] = "yield_done" /\ PlainStream(t)) =>
        /\ ChunkText(t) = DeltaText(t)
        /\ Log # <<>>
        /\ Last(Log).role = "assistant"
        /\ Last(Log).content = Text(DeltaText(t))

\* Three content pieces, not all the same, made the final message.
C11_Witness ==
    \E t \in Turns : /\ pc[t] = "yield_done"
                     /\ PlainStream(t)
                     /\ Len(DeltaText(t)) = 3
                     /\ DeltaText(t)[1] # DeltaText(t)[2]

\* C12: when the round was answered by the non-streaming request, the chunk
\* events of the round joined equal the content of that response, and so does
\* the content of the assistant message persisted for the round.
C12_FallbackSameText ==
    \A t \in Turns :
        (box[t].fallback /\ (pc[t] = "yield_done" \/ (pc[t] = "run_tool" /\ xt[t] = <<>>))) =>
            /\ ChunkText(t) = got[t].resp.content
            /\ \E i \in 1..Len(Log) : /\ Log[i].role = "assistant"
                                        /\ Log[i].content = Text(got[t].resp.content)
                                        /\ \A j \in (i + 1)..Len(Log) : Log[j].role # "assistant"

RECURSIVE EntryText(_, _, _)
\* the argument fragments for position index idx among the entries of one
\* chunk's delta.tool_calls, from entry i on, joined
EntryText(tcs, idx, i) ==
    IF i >= Len(tcs) THEN <<>>
    ELSE (IF IndexOf(tcs[i + 1], i) = idx THEN tcs[i + 1].arguments ELSE <<>>)
         \o EntryText(tcs, idx, i + 1)

\* the argument fragments the stream has delivered for idx, joined in arrival
\* order
FragText(t, idx) ==
    Concat([i \in 1..Len(got[t].deltas) |-> EntryText(got[t].deltas[i].tool_calls, idx, 0)])

\* the position indexes the stream has delivered a fragment for
SeenIdx(t) ==
    UNION { { IndexOf(got[t].deltas[i].tool_calls[j], j - 1) :
                j \in 1..Len(got[t].deltas[i].tool_calls) } :
            i \in 1..Len(got[t].deltas) }

\* C13: in a streamed round the finalized tool-call list has one record per
\* position index received, in index order, whose argument text is the
\* fragments received for that index joined in arrival order; and a tool
\* call is processed (its argument text parsed) only when the producer has
\* finished and the relay has seen the end of the stream.
C13_ArgumentsJoined ==
    /\ [](\A t \in Turns : (pc[t] = "append_asst" /\ ~box[t].fallback) =>
            /\ Len(tcl[t]) = Cardinality(SeenIdx(t))
            /\ \A k \in 1..Len(tcl[t]) :
                  tcl[t][k].arguments = FragText(t, SortedIdx(SeenIdx(t))[k]))
    /\ [][\A t \in Turns : Len(xt'[t]) > Len(xt[t]) =>
            (prod[t] = "off" /\ stream[t] = <<>> /\ outq[t] = <<>>)]_vars

\* The argument text of index 0 came in two fragments with a fragment of
\* index 1 between them.
C13_Witness ==
    \E t \in Turns : /\ pc[t] = "append_asst"
                     /\ ~box[t].fallback
                     /\ Len(tcl[t]) = 2
                     /\ Len(got[t].deltas) = 4
                     /\ got[t].deltas[1].tool_calls # <<>>
                     /\ got[t].deltas[2] = CallsDelta(<<TcDelta(1, None, "read_file", <<"x", "}">>)>>)
                     /\ tcl[t][1].arguments = <<"{", "}">>
                     /\ tcl[t][2].arguments = <<"x", "}">>

\* ------------------------------------------------ claims on the tool round
\* C14: when a tool of a round is dispatched, the client has received in that
\* round one tool_call event, with the record's id and name, for each
\* tool-call record of the round.
C14_ToolCallEvents ==
    \A t \in Turns : pc[t] \in {"run_tool", "append_tool", "yield_result"} =>
        \A k \in 1..Len(tcl[t]) :
            \E i \in 1..Len(RoundEvents(t)) :
                /\ RoundEvents(t)[i].type = "tool_call"
                /\ RoundEvents(t)[i].id = tcl[t][k].id
                /\ RoundEvents(t)[i].name = tcl[t][k].name

\* C15: when the capability of a tool call has raised, the call's result is
\* the tool_exception value, the tool message appended for it carries that
\* value, no position of the round is processed twice, and once the message
\* is appended the tool_result event carries the value too and the turn goes
\* on to the next tool call or the next provider round.
C15_ToolExceptionIsResult ==
    /\ [](\A t \in Turns :
            /\ \A j, k \in 1..Len(xt[t]) : j # k => xt[t][j].pos # xt[t][k].pos
            /\ (xt[t] # <<>> /\ Last(xt[t]).raised
                    /\ pc[t] \in {"append_tool", "yield_result"}) =>
                  /\ res[t] = ToolException
                  /\ pc[t] = "append_tool" =>
                        op[t].arg = ToolMsg(tcl[t][ti[t]], ToolException))
    /\ [][\A t \in Turns : (pc[t] = "yield_result" /\ pc'[t] # "yield_result"
                            /\ Last(xt[t]).raised) =>
            /\ Last(events'[t]) =
                  ToolResultEv(tcl[t][ti[t]].id, tcl[t][ti[t]].name, ToolException)
            /\ Last(Log).content = Dumps(ToolException)
            /\ Last(Log).tool_call_id = tcl[t][ti[t]].id
            /\ pc'[t] \in {"run_tool", "round"}]_vars

\* The first tool of a round raised, the second ran, and the turn is about to
\* issue its next provider request.
C15_Witness ==
    \E t \in Turns : /\ pc[t] = "round"
                     /\ Len(xt[t]) = 2
                     /\ xt[t][1].raised
                     /\ xt[t][2].invoked /\ ~xt[t][2].raised
                     /\ CountEvents(t, "tool_result") = 2

\* C16: a tool call for a registered tool that reaches the dispatcher invokes
\* the capability whatever its argument text is, and its result is not the
\* tool_exception value unless the capability raised.
C16_BadJsonStillInvokes ==
    \A t \in Turns : \A k \in 1..Len(xt[t]) :
        xt[t][k].parsed =>
            /\ xt[t][k].invoked
            /\ (k = Len(xt[t]) /\ pc[t] \in {"append_tool", "yield_result"}
                    /\ ~xt[t][k].raised) => res[t] # ToolException

\* C17: a tool call whose name is not registered is answered with the
\* Unknown tool value: no capability is invoked, the argument text is not
\* parsed, nothing is raised, and the tool message built for the call carries
\* that value.
C17_UnknownTool ==
    \A t \in Turns :
        (pc[t] \in {"append_tool", "yield_result"} /\ tcl[t][ti[t]].name \notin Registry) =>
            /\ res[t] = Result("Unknown tool", tcl[t][ti[t]].name)
            /\ ~Last(xt[t]).invoked
            /\ ~Last(xt[t]).parsed
            /\ ~Last(xt[t]).raised
            /\ pc[t] = "append_tool" =>
                  op[t].arg.content = Dumps(Result("Unknown tool", tcl[t][ti[t]].name))

\* A call for the name nobody registered, with an argument text that is not
\* JSON, was answered with the Unknown tool value.
C17_Witness ==
    \E t \in Turns : /\ pc[t] = "yield_result"
                     /\ tcl[t][ti[t]].name = "nope"
                     /\ ~ValidJson(tcl[t][ti[t]].arguments)
                     /\ res[t] = Result("Unknown tool", "nope")

\* --------------------------------------------- claims on what is persisted
\* the messages of the log after its last user message: with turns running
\* one at a time, the messages the running turn has appended
RECURSIVE TurnLog(_)
TurnLog(log) ==
    IF log = <<>> \/ Last(log).role = "user" THEN <<>>
    ELSE Append(TurnLog(SubSeq(log, 1, Len(log) - 1)), Last(log))

\* the chunk text the client of turn t has received, joined
TurnChunks(t) ==
    Concat([i \in 1..Len(events[t]) |->
              IF events[t][i].type = "chunk" THEN events[t][i].text ELSE <<>>])

\* the content of the assistant messages of a list of messages, joined
AssistantText(log) ==
    Concat([i \in 1..Len(log) |->
              IF log[i].role = "assistant" THEN log[i].content.text ELSE <<>>])

IsPrefix(a, b) == Len(a) <= Len(b) /\ SubSeq(b, 1, Len(a)) = a

\* the session's log as the live file holds it
FileLog == get_messages(Load(file), CHAT)

\* m is the last message of log
LastIs(log, m) == log # <<>> /\ Last(log) = m

C19_AnsweredAfterDisconnect ==
    \A t \in Turns : (pc[t] = "ended" /\ ~conn[t]) => Paired(Log)

\* C20: with chat turns running at the same time on one session, the
\* messages that follow an assistant message with tool calls in the log are,
\* as far as the log goes, the tool messages of its records, in record order:
\* no message of another turn stands between them.
C20_NoMessageBetween ==
    \A i \in 1..Len(Log) :
        (Log[i].role = "assistant" /\ Log[i].tool_calls # <<>>) =>
            \A k \in 1..Len(Log[i].tool_calls) :
                i + k <= Len(Log) =>
                    /\ Log[i + k].role = "tool"
                    /\ Log[i + k].tool_call_id = Log[i].tool_calls[k].id

\* C21: every line sent to the client during a chat turn is of one of the six
\* kinds chunk, tool_call, tool_result, thinking, error, done.
StreamEventKinds == {"chunk", "tool_call", "tool_result", "thinking", "error", "done"}

C21_ClosedVariant ==
    \A t \in Turns : \A i \in 1..Len(events[t]) :
        events[t][i].type \in StreamEventKinds

\* C22: a chat request without chat_id or without message is answered 400
\* before any streaming: the request appends no message and creates no
\* session, issues no provider request and sends no line to the client.
Invalid(t) == body[t] # NoBody /\ ~(body[t].chat_id /\ body[t].message)

C22_RejectedBeforeStreaming ==
    /\ [](\A t \in Turns : Invalid(t) =>
             /\ pc[t] = "rejected"
             /\ op[t] = NoOp
             /\ lock # t
             /\ events[t] = <<>>
             /\ nreq[t] = 0
             /\ prod[t] = "off")
    /\ [][\A t \in Turns : Invalid(t)' /\ nturns' # nturns =>
             /\ data' = data
             /\ file' = file
             /\ tmp' = tmp
             /\ applied' = applied
             /\ round' = round]_vars
    /\ [][(data' # data \/ file' # file) =>
             \E u \in Turns : (lock = u \/ lock' = u) /\ ~Invalid(u)]_vars

\* the first request of a run is rejected for a missing message: no session
C22_Witness ==
    \E t \in Turns :
        /\ pc[t] = "rejected"
        /\ body[t] = Body(TRUE, FALSE)
        /\ data[CHAT] = NoSession
        /\ file = NoFile

\* C23: when _save raises in a mutating store call (the temporary file cannot
\* be written, or the replace fails), the live file is left as it was, a
\* complete snapshot, and the call raises instead of returning a value.
SaveRaises ==
    /\ lock # NoOwner
    /\ lock' = NoOwner
    /\ kills' = kills
    /\ tmp' = tmp

C23_FailedWriteKeepsSnapshot ==
    [][SaveRaises =>
          /\ file' = file
          /\ file # NoFile => Parses(file)
          /\ pc[lock] = "client" => ret' = "raise"
          /\ pc[lock] # "client" => pc'[lock] \in {"ended", "yield_error"}]_vars

\* a call raised after an earlier one had saved: the file keeps the earlier
\* snapshot
C23_Witness ==
    /\ ret = "raise"
    /\ lock = NoOwner
    /\ Parses(file)
    /\ file.snap[CHAT] # NoSession
    /\ file.snap # data

\* C24: the updated_at of a session never decreases under append, rename and
\* update_model, whatever the order in which concurrent callers that have
\* evaluated their timestamps reach the store.
C24_UpdatedAtMonotone ==
    [][\A c \in DOMAIN data :
          data[c] # NoSession /\ data'[c] # NoSession =>
              data'[c].updated_at >= data[c].updated_at]_vars

\* C25: at every provider request of a turn (the streaming request of a round
\* and the non-streaming request that replaces it), the messages sent after
\* the system message are the session's message log of that moment, also when
\* another turn appends to the session while the turn runs.
C25_RequestIsLog ==
    [][\A t \in Turns :
          nreq'[t] > nreq[t] => Tail(build_messages(hist[t])) = Log]_vars

\* C26: a turn holds the store lock only inside one store call: never while it
\* waits for the provider, runs a tool or sits at a yield; and while a turn
\* waits, another turn that has an append to make can take the lock whenever
\* no store call is under way.
InStoreCall(t) == pc[t] \in CallPcs /\ op[t] # NoOp

Enqueued(t) ==
    Concat([i \in 1..Len(got[t].deltas) |-> DeltaEvents(got[t].deltas[i])]) \o
    (IF got[t].resp = NoResponse THEN <<>> ELSE Slices(got[t].resp.content, step))

\* the lines still on out_q, the sentinel left out
Waiting(t) == SelectSeq(outq[t], LAMBDA e : e # STREAM_DONE)

\* turn t has left the relay loop of its current round
PastRelay(t) ==
    pc[t] \in {"append_asst", "run_tool", "append_tool", "yield_result",
               "append_final", "yield_done", "yield_error"}

\* C27: within a round the client receives the lines _producer enqueued, in
\* the order it enqueued them, none dropped, repeated or reordered; all of
\* them precede the tool_result lines of the round, and the next round begins
\* with out_q empty.
C27_RelayInOrder ==
    /\ [](\A t \in Turns : pc[t] = "relay" =>
             RoundEvents(t) \o Waiting(t) = Enqueued(t))
    /\ [](\A t \in Turns : PastRelay(t) \/ (pc[t] = "round" /\ nreq[t] > 0) =>
             /\ outq[t] = <<>>
             /\ Len(RoundEvents(t)) >= Len(Enqueued(t))
             /\ SubSeq(RoundEvents(t), 1, Len(Enqueued(t))) = Enqueued(t)
             /\ \A i \in Len(Enqueued(t)) + 1 .. Len(RoundEvents(t)) :
                   RoundEvents(t)[i].type = "tool_result")

\* a round of two lines or more and a tool call: its tool_result has been sent
C27_Witness ==
    \E t \in Turns :
        /\ pc[t] = "round"
        /\ Len(Enqueued(t)) >= 2
        /\ Enqueued(t)[1] # Enqueued(t)[2]
        /\ Len(RoundEvents(t)) > Len(Enqueued(t))

\* the finish reason the provider gave in the current round of turn t: that of
\* the non-streaming response, or the last one a chunk carried, or None
RECURSIVE LastReason(_)
LastReason(deltas) ==
    IF deltas = <<>> THEN None
    ELSE IF Last(deltas).finish_reason # None THEN Last(deltas).finish_reason
    ELSE LastReason(SubSeq(deltas, 1, Len(deltas) - 1))

GivenReason(t) ==
    IF got[t].resp # NoResponse THEN got[t].resp.finish_reason
    ELSE LastReason(got[t].deltas)

\* the provider gave a tool-call fragment in the current round of turn t
GaveFragments(t) ==
    IF got[t].resp # NoResponse THEN got[t].resp.tool_calls # <<>>
    ELSE \E i \in 1..Len(got[t].deltas) : got[t].deltas[i].tool_calls # <<>>

\* C28: when a round is over, tools are dispatched exactly when the finish
\* reason is one of tool_calls, tool, function_call and a tool-call fragment
\* was accumulated; otherwise no tool runs, the message appended is the final
\* assistant message made of the answer and reasoning buffers, and done follows.
C28_DispatchIffReasonAndFragments ==
    /\ [][\A t \in Turns : pc[t] = "relay" /\ pc'[t] # "relay" =>
             /\ pc'[t] = "append_asst" <=>
                   (GaveFragments(t) /\ GivenReason(t) \in {"tool_calls", "tool", "function_call"})
             /\ pc'[t] # "append_asst" =>
                   /\ pc'[t] = "append_final"
                   /\ op'[t].arg = FinalMsg(box[t])
                   /\ xt[t] = <<>>]_vars
    /\ [](\A t \in Turns : pc[t] = "yield_done" =>
             /\ xt[t] = <<>>
             /\ LastIs(Log, FinalMsg(box[t])))
    /\ [][\A t \in Turns : pc[t] = "yield_done" /\ pc'[t] # "yield_done" =>
             Last(events'[t]).type = "done"]_vars

\* fragments were accumulated and the reason was another one: a final message
C28_Witness ==
    \E t \in Turns :
        /\ pc[t] = "yield_done"
        /\ GaveFragments(t)
        /\ GivenReason(t) = "stop"
        /\ box[t].assistant_text # <<>>

\* tools were dispatched on the reason function_call
C28_WitnessDispatch ==
    \E t \in Turns :
        /\ pc[t] = "run_tool"
        /\ GivenReason(t) = "function_call"

\* C29: while a round streams, the name of a tool-call fragment is the one
\* the first chunk that names the position index carries: a later chunk for
\* the same index does not change it.
C29_NameSetOnce ==
    [][\A t \in Turns :
          Len(got'[t].deltas) > Len(got[t].deltas) =>
              \A idx \in DOMAIN box[t].tool_calls_state :
                  box[t].tool_calls_state[idx].name # None =>
                      box'[t].tool_calls_state[idx].name =
                          box[t].tool_calls_state[idx].name]_vars

\* the ids the chunks of the current round of turn t carried for position idx
SuppliedIds(t, idx) ==
    UNION { { got[t].deltas[j].tool_calls[i].id :
                i \in { n \in 1..Len(got[t].deltas[j].tool_calls) :
                          /\ IndexOf(got[t].deltas[j].tool_calls[n], n - 1) = idx
                          /\ got[t].deltas[j].tool_calls[n].id # None } } :
            j \in 1..Len(got[t].deltas) }

\* C30: each record of tool_calls_list built from a streamed round carries an
\* id the provider supplied for its position index when some chunk supplied
\* one, and call_<index> otherwise.
C30_ProviderIdOrSynthetic ==
    \A t \in Turns :
        (pc[t] = "append_asst" /\ got[t].resp = NoResponse) =>
            LET order == SortedIdx(DOMAIN box[t].tool_calls_state)
            IN  \A k \in 1..Len(tcl[t]) :
                    IF SuppliedIds(t, order[k]) # {}
                    THEN tcl[t][k].id \in SuppliedIds(t, order[k])
                    ELSE tcl[t][k].id = "call_" \o ToString(order[k])

\* the reasoning pieces the stream of the round has delivered, joined
ReasoningText(t) ==
    Concat([i \in 1..Len(got[t].deltas) |-> got[t].deltas[i].reasoning])

\* the text of the thinking events the client has received in the round, joined
ThinkingText(t) ==
    Concat([i \in 1..Len(RoundEvents(t)) |->
              IF RoundEvents(t)[i].type = "thinking" THEN RoundEvents(t)[i].text ELSE <<>>])

\* the round of turn t is served by the stream alone
Streamed(t) == got[t].resp = NoResponse /\ ~box[t].fallback /\ pc[t] \notin {"idle", "ended", "rejected"}

\* C31: in a streamed round the answer buffer holds the content fragments and
\* nothing else, the reasoning buffer the reasoning fragments and nothing else;
\* chunk events carry content text only, thinking events reasoning text only;
\* the message built for the round has the one as content and the other as
\* thinking.
C31_ReasoningKeptApart ==
    \A t \in Turns : Streamed(t) =>
        /\ box[t].assistant_text = DeltaText(t)
        /\ box[t].thinking_text = ReasoningText(t)
        /\ IsPrefix(ChunkText(t), DeltaText(t))
        /\ IsPrefix(ThinkingText(t), ReasoningText(t))
        /\ pc[t] \in {"append_asst", "append_final"} =>
              /\ op[t].arg.content = Text(DeltaText(t))
              /\ op[t].arg.thinking = ReasoningText(t)
              /\ ChunkText(t) = DeltaText(t)
              /\ ThinkingText(t) = ReasoningText(t)

\* a round with content and reasoning, its message built
C31_Witness ==
    \E t \in Turns :
        /\ Streamed(t)
        /\ pc[t] = "append_final"
        /\ DeltaText(t) # <<>>
        /\ ReasoningText(t) # <<>>
        /\ \A i \in 1..Len(DeltaText(t)) : \A j \in 1..Len(ReasoningText(t)) :
              DeltaText(t)[i] # ReasoningText(t)[j]

\* C39: for every round, streamed or answered by the non-streaming request,
\* the thinking events of the round joined equal the thinking field of the
\* assistant message built for the round.
C39_ThinkingEventsArePersisted ==
    \A t \in Turns :
        pc[t] \in {"append_asst", "append_final"} =>
            ThinkingText(t) = op[t].arg.thinking

\* C32: in a round one streaming request is issued and at most one
\* non-streaming request; the second is issued only after the first raised an
\* error with status 400 or a recognised signature, carries the same
\* parameters, and is the last request of the round also when it fails.
C32_OneFallbackNoRetry ==
    /\ [](\A t \in Turns :
             /\ Len(got[t].sent) <= 2
             /\ Len(got[t].sent) >= 1 => got[t].sent[1].stream
             /\ Len(got[t].sent) = 2 =>
                   /\ ~got[t].sent[2].stream
                   /\ got[t].sent[2].messages = got[t].sent[1].messages
                   /\ got[t].err # NoError
                   /\ got[t].err.status = 400 \/ got[t].err.pattern
                   /\ prod[t] = "off")
    /\ [][\A t \in Turns : nreq'[t] > nreq[t] =>
             \/ pc[t] = "round" /\ Len(got'[t].sent) = 1
             \/ Len(got[t].sent) = 1 /\ Len(got'[t].sent) = 2]_vars

\* the non-streaming request failed too: the round ends with the two requests
C32_Witness ==
    \E t \in Turns :
        /\ Len(got[t].sent) = 2
        /\ perr[t]
        /\ pc[t] = "append_final"

\* C36: when a mutating store call has failed because _save raised, the
\* in-memory sessions are what they were before the call, that is what the
\* live file holds.
C36_FailedWriteRollsBack ==
    [][SaveRaises => data' = Load(file')]_vars

\* C37: a session that is absent, in particular one that delete has removed,
\* comes into being only by create or by the user message of a new chat
\* request: not by a later append of a turn that was already running.
C37_DeletedStaysDeleted ==
    [][\A c \in DOMAIN data :
          data[c] = NoSession /\ data'[c] # NoSession =>
              \E u \in Turns :
                  /\ lock' = u
                  /\ \/ pc[u] = "append_user"
                     \/ pc[u] = "client" /\ op[u].kind = "create"]_vars

\* C38: in the log of a session no two tool-call records carry the same id,
\* whether they stand in one assistant message or in two.
C38_ToolCallIdsUnique ==
    \A i, j \in 1..Len(Log) :
        \A k \in 1..Len(Log[i].tool_calls) : \A l \in 1..Len(Log[j].tool_calls) :
            Log[i].tool_calls[k].id = Log[j].tool_calls[l].id => (i = j /\ k = l)

\* ------------------------------------------------ Agent.respond (core.py)
\* the message lists respond may be called with: a first question, and a
\* conversation in which the schema was already inspected
SchemaCall == [id |-> "p0", name |-> "sql_schema", arguments |-> ARGS]

RespondInputs ==
    { <<UserMsg("u")>>,
      <<UserMsg("u"),
        Msg("assistant", <<SchemaCall>>, None, None, Text(<<>>), <<>>),
        ToolMsg(SchemaCall, Result("", "sql_schema")),
        Msg("assistant", <<>>, None, None, Text(<<"a">>), <<>>),
        UserMsg("v")>> }

\* what create() may answer the n-th request of the loop with: a final
\* text, or one or two tool calls; the argument text may be malformed
RespondCalls ==
    { <<[id |-> "p0", name |-> a, arguments |-> x]>> :
          a \in {"sql_query", "sql_schema", "list_files", "nope"},
          x \in {ARGS, <<"{">>} } \cup
    { <<[id |-> "p0", name |-> a, arguments |-> ARGS],
        [id |-> "p1", name |-> b, arguments |-> ARGS]>> :
          a, b \in {"sql_query", "sql_schema", "list_files"} }

RespondResponses(left) ==
    { Response(<<"a">>, <<>>, <<>>, "stop") } \cup
    (IF left <= 1 THEN {}
     ELSE { Response(<<>>, <<>>, tcs, "tool_calls") : tcs \in RespondCalls })

\* line 35: history = self.build_messages(messages)
respond ==
    /\ rs.pc = "idle"
    /\ \E messages \in RespondInputs :
          rs' = [NoRespond EXCEPT !.pc = "create",
                                  !.history = build_messages(messages)]
    /\ UNCHANGED <<mainVars, dbs, sf>>

\* lines 37-47 and 64-69: one request; a message with tool calls is appended
\* and its calls are executed, any other message is appended and returned
respond_create ==
    /\ rs.pc = "create"
    /\ \E r \in RespondResponses(MaxRounds - rs.n) :
          IF r.tool_calls # <<>>
          THEN rs' = [rs EXCEPT !.pc = "tool",
                                !.n = @ + 1,
                                !.history = Append(@, Msg("assistant", r.tool_calls, None, None,
                                                          Text(r.content), <<>>)),
                                !.calls = r.tool_calls,
                                !.i = 1]
          ELSE rs' = [rs EXCEPT !.pc = "returned",
                                !.n = @ + 1,
                                !.history = Append(@, Msg("assistant", <<>>, None, None,
                                                          Text(r.content), <<>>))]
    /\ UNCHANGED <<mainVars, dbs, sf>>

\* lines 55-62: dispatch_tool is called with the name and the argument text
\* of the call; its result is appended as a tool message, an exception
\* leaves respond
respond_tool(outcomes) ==
    /\ rs.pc = "tool"
    /\ LET tc == rs.calls[rs.i]
       IN  \E outcome \in outcomes :
              LET r == dispatch_tool(tc.name, tc.arguments, outcome)
                  x == [pos |-> rs.i, name |-> tc.name,
                        invoked |-> Invokes(tc.name, tc.arguments),
                        schema |-> has_schema(rs.history)]
              IN  IF r = Raised
                  THEN rs' = [rs EXCEPT !.pc = "raised", !.xt = Append(@, x)]
                  ELSE rs' = [rs EXCEPT !.xt = Append(@, x),
                                        !.history = Append(@, ToolMsg(tc, r)),
                                        !.i = IF rs.i < Len(rs.calls) THEN @ + 1 ELSE 0,
                                        !.pc = IF rs.i < Len(rs.calls) THEN "tool" ELSE "create"]
    /\ UNCHANGED <<mainVars, dbs, sf>>

NextRespond ==
    \/ respond
    \/ respond_create
    \/ respond_tool({"ok", "raise"})

SpecRespond == Init /\ [][NextRespond]_vars

\* C33: a tool call a model requested invokes sql_query only when the
\* history already holds a sql_schema tool message, in the blocking
\* Agent.respond loop as in the streaming turn: the gate is the dispatcher's.
\* Calls of any other registered capability are invoked whatever the history.
C33_DispatcherGatesQuery ==
    /\ \A k \in 1..Len(rs.xt) :
          (rs.xt[k].name = "sql_query" /\ rs.xt[k].invoked) => rs.xt[k].schema
    /\ \A k \in 1..Len(rs.xt) :
          (rs.xt[k].name \in Registry \ {"sql_query"}) => rs.xt[k].invoked

\* ------------------------------------------------------- Database (db.py)
\* the operations and whether the statement text is a SELECT / WITH
DbCalls ==
    { [kind |-> k, select |-> s] : k \in {"query", "execute", "schema"}, s \in BOOLEAN }

\* the steps an operation makes on the shared connection inside its `with`:
\* query executes and fetches; execute executes and commits; schema lists
\* the tables and reads each one
Statements(kind) == IF kind = "query" THEN 1 ELSE 2

\* callers whose operation is inside `with self._lock`
InWith == { c \in Turns : dbs.pc[c] \in {"exec", "raising"} }

\* a lock that is given up on a normal return only
DbExitKeepsOnRaise(c, raising) == IF raising THEN c ELSE NoOwner

\* the owner of _lock after caller c leaves the `with` statement, by return
\* or by an exception
DbExit(c, raising) == NoOwner

\* lines 54-57, 64-65, 71-72: the operation is called; query refuses a
\* statement that is no SELECT / WITH before it asks for the lock
db_call(c) ==
    /\ dbs.pc[c] = "out"
    /\ dbs.n < MaxOps
    /\ \E call \in DbCalls :
          IF call.kind = "query" /\ ~call.select
          THEN dbs' = [dbs EXCEPT !.kind[c] = call.kind,
                                  !.out[c] = "raised",
                                  !.n = @ + 1]
          ELSE dbs' = [dbs EXCEPT !.kind[c] = call.kind,
                                  !.pc[c] = "wait",
                                  !.out[c] = "none",
                                  !.n = @ + 1]
    /\ UNCHANGED <<mainVars, rs, sf>>

\* `with self._lock`: threading.Lock.acquire blocks while the lock is held
db_acquire(c) ==
    /\ dbs.pc[c] = "wait"
    /\ dbs.lock = NoOwner
    /\ dbs' = [dbs EXCEPT !.lock = c,
                          !.pc[c] = "exec",
                          !.left[c] = Statements(dbs.kind[c])]
    /\ UNCHANGED <<mainVars, rs, sf>>

\* lines 58-61, 66-69, 73-93: one step on the connection; it may raise
\* sqlite3.Error
db_statement(c) ==
    /\ dbs.pc[c] = "exec"
    /\ dbs.left[c] > 0
    /\ \/ dbs' = [dbs EXCEPT !.left[c] = @ - 1]
       \/ dbs' = [dbs EXCEPT !.pc[c] = "raising"]
    /\ UNCHANGED <<mainVars, rs, sf>>

\* the `with` statement is left: by `return` after the last step, or by the
\* exception
db_exit(c) ==
    /\ \/ dbs.pc[c] = "exec" /\ dbs.left[c] = 0
       \/ dbs.pc[c] = "raising"
    /\ dbs' = [dbs EXCEPT !.lock = DbExit(c, dbs.pc[c] = "raising"),
                          !.pc[c] = "out",
                          !.left[c] = 0,
                          !.out[c] = IF dbs.pc[c] = "raising" THEN "raised" ELSE "returned"]
    /\ UNCHANGED <<mainVars, rs, sf>>

NextDb ==
    \E c \in Turns :
       \/ db_call(c)
       \/ db_acquire(c)
       \/ db_statement(c)
       \/ db_exit(c)

SpecDb == Init /\ [][NextDb]_vars

\* C34: at most one of query, execute and schema is inside its statements on
\* the shared connection at any time, and it is the owner of the lock; a
\* caller enters only when the lock is free; a caller that is outside an
\* operation, having returned or raised, does not hold the lock, and the lock
\* is free when nobody is inside.
C34_DatabaseSerialized ==
    /\ [](/\ Cardinality(InWith) <= 1
          /\ \A c \in InWith : dbs.lock = c
          /\ InWith = {} => dbs.lock = NoOwner)
    /\ [][\A c \in Turns :
            /\ (dbs.pc[c] = "wait" /\ dbs'.pc[c] = "exec") => dbs.lock = NoOwner
            /\ (c \in InWith /\ dbs'.pc[c] = "out") =>
                  /\ dbs'.lock # c
                  /\ dbs'.out[c] \in {"returned", "raised"}]_vars

\* One caller raised inside its operation and is out again; another caller
\* holds the lock and is executing.
C34_Witness ==
    \E c, e \in Turns : /\ c # e
                        /\ dbs.out[c] = "raised"
                        /\ dbs.kind[c] # "query"
                        /\ dbs.pc[c] = "out"
                        /\ dbs.pc[e] = "exec"
                        /\ dbs.lock = e

\* ------------------------------------------------ search_files (tools.py)
\* a file of the workspace: does its text hold the query?
Dirs(k) == UNION { [1..n -> BOOLEAN] : n \in 0..k }

\* what os.walk yields: the directories in order, each with its files
Layouts == UNION { [1..n -> Dirs(MaxFiles)] : n \in 0..MaxDirs }

\* lines 92-94: the call, hits = []; max_hits is at least 1, the minimum of
\* the tool's schema (line 265)
Search(layout, max_hits) ==
    [pc |-> "walk", layout |-> layout, max_hits |-> max_hits,
     dir |-> 1, file |-> 1, hits |-> <<>>]

InitSearch ==
    /\ live = FALSE
    /\ Start
    /\ \E layout \in Layouts, max_hits \in 1..MaxHits : sf = Search(layout, max_hits)

\* lines 96-108: one file of the inner loop; a file that holds the query is
\* appended to hits, and `break` leaves the loop over this directory's files
search_file ==
    /\ sf.pc = "walk"
    /\ sf.dir <= Len(sf.layout)
    /\ sf.file <= Len(sf.layout[sf.dir])
    /\ LET hits == IF sf.layout[sf.dir][sf.file]
                   THEN Append(sf.hits, <<sf.dir, sf.file>>) ELSE sf.hits
       IN  IF Len(hits) >= sf.max_hits
           THEN sf' = [sf EXCEPT !.hits = hits, !.dir = @ + 1, !.file = 1]
           ELSE sf' = [sf EXCEPT !.hits = hits, !.file = @ + 1]
    /\ UNCHANGED <<mainVars, rs, dbs>>

\* line 95: the files of the directory are exhausted, os.walk yields the next
search_next_dir ==
    /\ sf.pc = "walk"
    /\ sf.dir <= Len(sf.layout)
    /\ sf.file > Len(sf.layout[sf.dir])
    /\ sf' = [sf EXCEPT !.dir = @ + 1, !.file = 1]
    /\ UNCHANGED <<mainVars, rs, dbs>>

\* line 109: return {"query": query, "hits": hits}
search_return ==
    /\ sf.pc = "walk"
    /\ sf.dir > Len(sf.layout)
    /\ sf' = [sf EXCEPT !.pc = "returned"]
    /\ UNCHANGED <<mainVars, rs, dbs>>

NextSearch ==
    \/ search_file
    \/ search_next_dir
    \/ search_return

SpecSearch == InitSearch /\ [][NextSearch]_vars

\* C35: the hits search_files returns are never more than max_hits, whatever
\* directories the matching files are in.
C35_HitCap == sf.pc = "returned" => Len(sf.hits) <= sf.max_hits

====
